---- MODULE Spec2Model ----
(***************************************************************************)
(* Model of the transaction classifier (HeliusService.parse_transaction),  *)
(* the FIFO cost-basis ledger (PnLCalculator.process_transactions and      *)
(* calculate_realized_pnl) and the holdings projection                     *)
(* (PnLCalculator.get_portfolio_pnl) of solpnl.                            *)
(*                                                                         *)
(* Numbers: the code computes in binary floating point.  The model uses    *)
(* exact integers: a token amount is a whole number of amount units, a     *)
(* price a whole number of price units, and every product or sum is the    *)
(* exact one.  Quotients are kept as fractions [num, den].                 *)
(***************************************************************************)
EXTENDS Integers, Sequences, FiniteSets, TLC

VARIABLES
    pc,              \* position of the running operation
    tx,              \* process_transactions: the loop variable (last activity applied)
    sol_prices,      \* process_transactions: signature -> SOL price in USD
    token_lots,      \* process_transactions: mint -> FIFO list of CostBasisLot
    token_holdings,  \* process_transactions: mint -> holding dict
    swaps,           \* sync_wallet_transactions: the list given to process_transactions
    raw,             \* parse_transaction: the transaction record given (tx)
    parsed,          \* parse_transaction: what the call produced
    request,         \* get_portfolio_pnl: the stored holdings and the quotes
    portfolio        \* get_portfolio_pnl: the PortfolioSummary returned

ledgerVars == <<tx, sol_prices, token_lots, token_holdings, swaps>>
classifierVars == <<raw, parsed>>
projectorVars == <<request, portfolio>>
vars == <<pc, ledgerVars, classifierVars, projectorVars>>

-----------------------------------------------------------------------------
(* Bounds and input sets of the ledger.                                    *)

MaxTxs == 3                    \* length of the activity list folded

Mints == {"mintA", "mintB"}

DefaultSolPrice == 200         \* sol_prices.get(signature, 200.0)
QuotedSolPrice == 150          \* a price found in sol_prices

\* None, as the value of block_time / first_trade / last_trade
NoTime == 0

\* The (tx_type, amount_token, price_per_token) combinations fed to the fold.
\* They cover the scenarios of the specification (units: see each claim), a
\* zero amount, and a sell smaller than, equal to and larger than the balance.
BuyInputs ==
    [tx_type : {"buy"}, amount_token : {0, 2, 5}, price_per_token : {1}]
        \cup [tx_type : {"buy"}, amount_token : {5}, price_per_token : {3}]

SellInputs ==
    [tx_type : {"sell"}, amount_token : {0, 2, 5}, price_per_token : {2}]
        \cup [tx_type : {"sell"}, amount_token : {7}, price_per_token : {5}]

\* The subtypes of the classifier that are neither buy nor sell: tokens coming
\* in or going out without a trade.
OtherTypes ==
    {"transfer_in", "transfer_out", "airdrop", "staking_reward", "stake",
     "liquidity_add", "liquidity_remove", "burn", "other_in", "other_out"}

OtherInputs ==
    [tx_type : OtherTypes, amount_token : {5}, price_per_token : {0}]
        \cup [tx_type : {"transfer_in"}, amount_token : {5}, price_per_token : {1}]

Inputs == BuyInputs \cup SellInputs \cup OtherInputs

NoTx ==
    [signature |-> 0, token_mint |-> "", tx_type |-> "", amount_token |-> 0,
     price_per_token |-> 0, block_time |-> NoTime]

-----------------------------------------------------------------------------
(* Helpers.                                                                *)

Frac(n, d) == [num |-> n, den |-> d]

RECURSIVE SumSeq(_)
SumSeq(s) == IF s = <<>> THEN 0 ELSE Head(s) + SumSeq(Tail(s))

RECURSIVE SumAmount(_)
SumAmount(lots) ==
    IF lots = <<>> THEN 0 ELSE Head(lots).amount + SumAmount(Tail(lots))

\* sum(lot.amount * lot.price_sol for lot in lots)
RECURSIVE SumCost(_)
SumCost(lots) ==
    IF lots = <<>> THEN 0
    ELSE Head(lots).amount * Head(lots).price_sol + SumCost(Tail(lots))

CostBasisLot(amount, price_sol, price_usd, timestamp) ==
    [amount |-> amount, price_sol |-> price_sol, price_usd |-> price_usd,
     timestamp |-> timestamp]

\* dict.get(key, default)
Get(d, key, default) == IF key \in DOMAIN d THEN d[key] ELSE default

\* d[key] = value on a dict
Put(d, key, value) == [k \in DOMAIN d \cup {key} |-> IF k = key THEN value ELSE d[k]]

-----------------------------------------------------------------------------
(* Python values of a transaction record handed to parse_transaction.      *)
(* Amounts (tokenAmount, and lamports / 1e9) are whole numbers of units of *)
(* 0.00005, half the smallest threshold of the code.                       *)

\* A scalar field of the record: absent from the dict, null, a string, a number.
Missing == [k |-> "missing", s |-> "", n |-> 0]
None == [k |-> "none", s |-> "", n |-> 0]
Str(s) == [k |-> "str", s |-> s, n |-> 0]
Num(n) == [k |-> "num", s |-> "", n |-> n]

\* A list field of the record: absent, null, a number, a list of entries.
NoList == [k |-> "missing", items |-> <<>>]
NullList == [k |-> "none", items |-> <<>>]
NumList == [k |-> "num", items |-> <<>>]
List(items) == [k |-> "list", items |-> items]

\* An entry of tokenTransfers / nativeTransfers: a dict, or a value that is none.
Transfer(mint, from, to, amount) ==
    [dict |-> TRUE, mint |-> mint, fromUserAccount |-> from,
     toUserAccount |-> to, amount |-> amount]
NonDict ==
    [dict |-> FALSE, mint |-> "", fromUserAccount |-> "", toUserAccount |-> "",
     amount |-> None]

WSOL_MINT == "So11111111111111111111111111111111111111112"

NativeDust == 2           \* amount < 0.0001
TokenChangeMin == 2       \* abs(token_change) < 0.0001
NativeSwapLimit == 200    \* total_native_transfer < 0.01

\* No destination / no other token (None).
NoAddr == "<None>"

SwapTypes == {"SWAP", "INIT_SWAP", "BUY", "SELL"}
SwapSources ==
    {"JUPITER", "RAYDIUM", "ORCA", "METEORA", "PUMP_FUN", "PUMPFUN", "MOONSHOT"}
TransferTypes == {"TRANSFER"}
AirdropTypes == {"TOKEN_MINT", "COMPRESSED_NFT_MINT", "NFT_MINT"}
StakingTypes ==
    {"STAKE_TOKEN", "UNSTAKE_TOKEN", "STAKE_SOL", "UNSTAKE_SOL", "CLAIM_REWARDS"}
LiquidityTypes == {"ADD_LIQUIDITY", "REMOVE_FROM_POOL", "CREATE_POOL"}
BurnTypes == {"BURN", "BURN_NFT"}

\* DEX_PROGRAMS, in the order of the dict.
DEX_PROGRAMS ==
    << <<"JUP6LkbZbjS1jKKwapdHNy74zcZ3tLUZoi5QNyVTaV4", "jupiter">>,
       <<"675kPX9MHTjS2zt1qfr1NYHuzeLXfQM9H24wFSUt1Mp8", "raydium">>,
       <<"whirLbMiicVdio4qvUfM5KAg6Ct8VwpYzGff3uctyCc", "orca">>,
       <<"SSwpkEEcbUqx4vtoEByFjSkhKdCT862DNVb52nZg1UZ", "saber">> >>

\* str.upper() and str.lower(), on the strings that occur as hints.
Upper(s) ==
    CASE s = "swap" -> "SWAP"
      [] s = "Jupiter" -> "JUPITER"
      [] s = "unknown" -> "UNKNOWN"
      [] OTHER -> s
Lower(s) ==
    CASE s = "Jupiter" -> "jupiter"
      [] s = "SYSTEM_PROGRAM" -> "system_program"
      [] OTHER -> s

\* "SWAP" in s, on the upper-case strings that occur as hints.
ContainsSWAP(s) == s \in {"SWAP", "INIT_SWAP"}

Abs(x) == IF x < 0 THEN -x ELSE x
Max(a, b) == IF a >= b THEN a ELSE b

Ok(v) == [raised |-> FALSE, v |-> v]
Raised == [raised |-> TRUE, v |-> 0]
RaisedFlag == [raised |-> TRUE, v |-> FALSE]

\* tx.get(key, default)
DictGet(field, default) == IF field.k = "missing" THEN default ELSE field

\* x[:8] works on a string only.
Sliceable(x) == x.k = "str"

\* tx_type in [...]
TypeIn(tx_type, names) == tx_type.k = "str" /\ tx_type.s \in names

\* bool(x) of a list field
Truthy(lv) == (lv.k = "list" /\ lv.items # <<>>) \/ lv.k = "num"

\* for ... in x works on a list only (an absent field was defaulted to []).
Iterable(lv) == lv.k \in {"missing", "list"}

\* float(x or 0): None and "" give 0, a string that is no number raises.
Float(x) ==
    CASE x.k \in {"missing", "none"} -> Ok(0)
      [] x.k = "num" -> Ok(x.n)
      [] OTHER -> IF x.s = "" THEN Ok(0) ELSE Raised

-----------------------------------------------------------------------------
(* HeliusService.parse_transaction                                         *)

\* is_swap, from the type and source hints.
SwapMarker(tx_type, source) ==
    IF TypeIn(tx_type, SwapTypes) THEN Ok(TRUE)
    ELSE IF tx_type.k # "str" THEN RaisedFlag
    ELSE IF ContainsSWAP(Upper(tx_type.s)) THEN Ok(TRUE)
    ELSE IF source.k # "str" THEN RaisedFlag
    ELSE Ok(Upper(source.s) \in SwapSources)

\* any(t.get("fromUserAccount") == wallet or t.get("toUserAccount") == wallet
\*     for t in transfers): stops at the first entry of the wallet.
RECURSIVE AnyPartyItems(_, _)
AnyPartyItems(items, wallet_address) ==
    IF items = <<>> THEN Ok(FALSE)
    ELSE IF ~Head(items).dict THEN RaisedFlag
    ELSE IF Head(items).fromUserAccount = wallet_address
              \/ Head(items).toUserAccount = wallet_address
    THEN Ok(TRUE)
    ELSE AnyPartyItems(Tail(items), wallet_address)

AnyParty(lv, wallet_address) ==
    IF Iterable(lv) THEN AnyPartyItems(lv.items, wallet_address) ELSE RaisedFlag

\* PatternSwap with the transfer pattern never looked at.
PatternSwap_HintOnly(is_swap, token_transfers, native_transfers, signature, wallet_address) ==
    Ok(is_swap)

\* The "classic swap pattern": the wallet is in a token and in a native transfer.
PatternSwap(is_swap, token_transfers, native_transfers, signature, wallet_address) ==
    IF is_swap \/ ~Truthy(token_transfers) \/ ~Truthy(native_transfers)
    THEN Ok(is_swap)
    ELSE LET wallet_in_tokens == AnyParty(token_transfers, wallet_address)
             wallet_in_native == AnyParty(native_transfers, wallet_address)
         IN  IF wallet_in_tokens.raised \/ wallet_in_native.raised THEN RaisedFlag
             ELSE IF wallet_in_tokens.v /\ wallet_in_native.v
             THEN (IF Sliceable(signature) THEN Ok(TRUE) ELSE RaisedFlag)
             ELSE Ok(FALSE)

\* sum(float(t.get("amount", 0) or 0) / 1e9 for t in native_transfers
\*     if the wallet is its sender or its receiver)
RECURSIVE SumPartyNative(_, _)
SumPartyNative(items, wallet_address) ==
    IF items = <<>> THEN Ok(0)
    ELSE LET t == Head(items)
             rest == SumPartyNative(Tail(items), wallet_address)
         IN  IF ~t.dict THEN Raised
             ELSE IF t.fromUserAccount = wallet_address
                       \/ t.toUserAccount = wallet_address
             THEN (IF Float(t.amount).raised \/ rest.raised THEN Raised
                   ELSE Ok(Float(t.amount).v + rest.v))
             ELSE rest

\* The token-to-token pattern: two or more token transfers, the wallet in one
\* of them, and less than 0.01 SOL of native transfers of the wallet.
TokenToTokenSwap(is_swap, token_transfers, native_transfers, signature, wallet_address) ==
    IF is_swap THEN Ok(TRUE)
    ELSE IF token_transfers.k \in {"none", "num"} THEN RaisedFlag     \* len()
    ELSE IF Len(token_transfers.items) < 2 THEN Ok(FALSE)
    ELSE LET wallet_involved == AnyPartyItems(token_transfers.items, wallet_address)
             total_native_transfer ==
                 IF Iterable(native_transfers)
                 THEN SumPartyNative(native_transfers.items, wallet_address)
                 ELSE Raised
         IN  IF wallet_involved.raised \/ total_native_transfer.raised THEN RaisedFlag
             ELSE IF wallet_involved.v /\ total_native_transfer.v < NativeSwapLimit
             THEN (IF Sliceable(signature) THEN Ok(TRUE) ELSE RaisedFlag)
             ELSE Ok(FALSE)

Category(is_swap, tx_type) ==
    IF is_swap THEN "swap"
    ELSE IF TypeIn(tx_type, TransferTypes) THEN "transfer"
    ELSE IF TypeIn(tx_type, AirdropTypes) THEN "airdrop"
    ELSE IF TypeIn(tx_type, StakingTypes) THEN "staking"
    ELSE IF TypeIn(tx_type, LiquidityTypes) THEN "liquidity"
    ELSE IF TypeIn(tx_type, BurnTypes) THEN "burn"
    ELSE "irrelevant"

\* token_changes is a dict in insertion order: a list of [mint, change].
HasMint(token_changes, mint) ==
    \E i \in 1..Len(token_changes) : token_changes[i].mint = mint

AddChange(token_changes, mint, delta) ==
    [i \in 1..Len(token_changes) |->
        IF token_changes[i].mint = mint
        THEN [token_changes[i] EXCEPT !.change = @ + delta]
        ELSE token_changes[i]]

\* not transfer_destination
NoDestination(d) == d = NoAddr \/ d = ""

\* One iteration of the token loop that records the sender as destination.
TokenStep_DestinationIsSender(st, transfer, wallet_address, category) ==
    IF st.raised THEN st
    ELSE IF ~transfer.dict \/ Float(transfer.amount).raised
    THEN [st EXCEPT !.raised = TRUE]
    ELSE LET mint == transfer.mint
             from_addr == transfer.fromUserAccount
             to_addr == transfer.toUserAccount
             amount == Float(transfer.amount).v
             dest == IF category = "transfer" /\ NoDestination(st.transfer_destination)
                     THEN from_addr ELSE st.transfer_destination
         IN  IF amount <= 0 THEN st
             ELSE IF mint = WSOL_MINT
             THEN (IF to_addr = wallet_address
                   THEN [st EXCEPT !.sol_change = @ + amount]
                   ELSE IF from_addr = wallet_address
                   THEN [st EXCEPT !.sol_change = @ - amount,
                                   !.transfer_destination = dest]
                   ELSE st)
             ELSE LET tc == IF HasMint(st.token_changes, mint) THEN st.token_changes
                            ELSE Append(st.token_changes, [mint |-> mint, change |-> 0])
                  IN  IF to_addr = wallet_address
                      THEN [st EXCEPT !.token_changes = AddChange(tc, mint, amount)]
                      ELSE IF from_addr = wallet_address
                      THEN [st EXCEPT !.token_changes = AddChange(tc, mint, -amount),
                                      !.transfer_destination = dest]
                      ELSE [st EXCEPT !.token_changes = tc]

\* One iteration of the token loop with wrapped SOL counted as any other mint.
TokenStep_WrappedAsToken(st, transfer, wallet_address, category) ==
    IF st.raised THEN st
    ELSE IF ~transfer.dict \/ Float(transfer.amount).raised
    THEN [st EXCEPT !.raised = TRUE]
    ELSE LET mint == transfer.mint
             amount == Float(transfer.amount).v
             dest == IF category = "transfer" /\ NoDestination(st.transfer_destination)
                     THEN transfer.toUserAccount ELSE st.transfer_destination
             tc == IF HasMint(st.token_changes, mint) THEN st.token_changes
                   ELSE Append(st.token_changes, [mint |-> mint, change |-> 0])
         IN  IF amount <= 0 THEN st
             ELSE IF transfer.toUserAccount = wallet_address
             THEN [st EXCEPT !.token_changes = AddChange(tc, mint, amount)]
             ELSE IF transfer.fromUserAccount = wallet_address
             THEN [st EXCEPT !.token_changes = AddChange(tc, mint, -amount),
                             !.transfer_destination = dest]
             ELSE [st EXCEPT !.token_changes = tc]

\* One iteration of `for transfer in token_transfers`.
TokenStep(st, transfer, wallet_address, category) ==
    IF st.raised THEN st
    ELSE IF ~transfer.dict \/ Float(transfer.amount).raised
    THEN [st EXCEPT !.raised = TRUE]
    ELSE LET mint == transfer.mint
             from_addr == transfer.fromUserAccount
             to_addr == transfer.toUserAccount
             amount == Float(transfer.amount).v
             dest == IF category = "transfer" /\ NoDestination(st.transfer_destination)
                     THEN to_addr ELSE st.transfer_destination
         IN  IF amount <= 0 THEN st
             ELSE IF mint = WSOL_MINT
             THEN (IF to_addr = wallet_address
                   THEN [st EXCEPT !.sol_change = @ + amount]
                   ELSE IF from_addr = wallet_address
                   THEN [st EXCEPT !.sol_change = @ - amount,
                                   !.transfer_destination = dest]
                   ELSE st)
             ELSE LET tc == IF HasMint(st.token_changes, mint) THEN st.token_changes
                            ELSE Append(st.token_changes, [mint |-> mint, change |-> 0])
                  IN  IF to_addr = wallet_address
                      THEN [st EXCEPT !.token_changes = AddChange(tc, mint, amount)]
                      ELSE IF from_addr = wallet_address
                      THEN [st EXCEPT !.token_changes = AddChange(tc, mint, -amount),
                                      !.transfer_destination = dest]
                      ELSE [st EXCEPT !.token_changes = tc]

\* One iteration of `for transfer in native_transfers`.
NativeStep(st, transfer, wallet_address) ==
    IF st.raised THEN st
    ELSE IF ~transfer.dict \/ Float(transfer.amount).raised
    THEN [st EXCEPT !.raised = TRUE]
    ELSE LET amount == Float(transfer.amount).v
         IN  IF amount < NativeDust THEN st
             ELSE IF transfer.toUserAccount = wallet_address
             THEN [st EXCEPT !.sol_change = @ + amount]
             ELSE IF transfer.fromUserAccount = wallet_address
             THEN [st EXCEPT !.sol_change = @ - amount]
             ELSE st

RECURSIVE TokenLoop(_, _, _, _)
TokenLoop(st, items, wallet_address, category) ==
    IF items = <<>> THEN st
    ELSE TokenLoop(TokenStep(st, Head(items), wallet_address, category),
                   Tail(items), wallet_address, category)

RECURSIVE NativeLoop(_, _, _)
NativeLoop(st, items, wallet_address) ==
    IF items = <<>> THEN st
    ELSE NativeLoop(NativeStep(st, Head(items), wallet_address),
                    Tail(items), wallet_address)

\* token_changes, sol_change and transfer_destination after both loops.
NetChanges(token_transfers, native_transfers, wallet_address, category) ==
    IF ~Iterable(token_transfers) \/ ~Iterable(native_transfers)
    THEN [raised |-> TRUE, token_changes |-> <<>>, sol_change |-> 0,
          transfer_destination |-> NoAddr]
    ELSE NativeLoop(
             TokenLoop([raised |-> FALSE, token_changes |-> <<>>, sol_change |-> 0,
                        transfer_destination |-> NoAddr],
                       token_transfers.items, wallet_address, category),
             native_transfers.items, wallet_address)

\* The first entry of token_changes, whatever its size.
TradedToken_First(token_changes) == token_changes[1]

\* max(token_changes.items(), key=lambda x: abs(x[1])): the first of the largest.
TradedToken(token_changes) ==
    LET i == CHOOSE i \in 1..Len(token_changes) :
                 /\ \A j \in 1..Len(token_changes) :
                        Abs(token_changes[j].change) <= Abs(token_changes[i].change)
                 /\ \A j \in 1..(i - 1) :
                        Abs(token_changes[j].change) < Abs(token_changes[i].change)
    IN  token_changes[i]

\* The first mint of token_changes that is not the traded one.
OtherToken(token_changes, token_mint) ==
    IF Len(token_changes) >= 2
    THEN LET i == CHOOSE i \in 1..Len(token_changes) :
                      /\ token_changes[i].mint # token_mint
                      /\ \A j \in 1..(i - 1) : token_changes[j].mint = token_mint
         IN  [other_token_mint |-> token_changes[i].mint,
              other_token_amount |-> Abs(token_changes[i].change)]
    ELSE [other_token_mint |-> NoAddr, other_token_amount |-> 0]

\* The largest amount among the native transfers the wallet sent ("from") or
\* received ("to"), starting from amount_sol.
RECURSIVE MaxNative(_, _, _, _)
MaxNative(amount_sol, items, wallet_address, side) ==
    IF items = <<>> THEN amount_sol
    ELSE LET t == Head(items)
             mine == IF side = "from" THEN t.fromUserAccount = wallet_address
                     ELSE t.toUserAccount = wallet_address
         IN  MaxNative(IF mine THEN Max(amount_sol, Float(t.amount).v) ELSE amount_sol,
                       Tail(items), wallet_address, side)

Flow(swap_type, amount_token, amount_sol) ==
    [swap_type |-> swap_type, amount_token |-> amount_token, amount_sol |-> amount_sol]

\* The swap branch with the SOL change of a sell taken as it is.
SwapFlow_UnclampedSell(token_change, sol_change, native_items, wallet_address) ==
    IF token_change > 0
    THEN LET direct == IF sol_change < 0 THEN Abs(sol_change) ELSE 0
         IN  Flow("buy", token_change,
                  IF direct = 0
                  THEN MaxNative(direct, native_items, wallet_address, "from")
                  ELSE direct)
    ELSE Flow("sell", Abs(token_change),
              IF sol_change = 0
              THEN MaxNative(0, native_items, wallet_address, "to")
              ELSE sol_change)

\* The swap branch with the net SOL change only, nothing estimated.
SwapFlow_NoFallback(token_change, sol_change, native_items, wallet_address) ==
    IF token_change > 0
    THEN Flow("buy", token_change, IF sol_change < 0 THEN Abs(sol_change) ELSE 0)
    ELSE Flow("sell", Abs(token_change), IF sol_change > 0 THEN sol_change ELSE 0)

\* The swap branch of the subtype: buy or sell, with the SOL paid or received.
SwapFlow(token_change, sol_change, native_items, wallet_address) ==
    IF token_change > 0
    THEN LET direct == IF sol_change < 0 THEN Abs(sol_change) ELSE 0
         IN  Flow("buy", token_change,
                  IF direct = 0
                  THEN MaxNative(direct, native_items, wallet_address, "from")
                  ELSE direct)
    ELSE LET direct == IF sol_change > 0 THEN sol_change ELSE 0
         IN  Flow("sell", Abs(token_change),
                  IF direct = 0
                  THEN MaxNative(direct, native_items, wallet_address, "to")
                  ELSE direct)

\* swap_type, amount_token and amount_sol, by category and direction.
Subtype(category, token_change, sol_change, native_items, wallet_address) ==
    CASE category = "swap" ->
            SwapFlow(token_change, sol_change, native_items, wallet_address)
      [] category = "transfer" ->
            IF token_change > 0 THEN Flow("transfer_in", token_change, 0)
            ELSE Flow("transfer_out", Abs(token_change), 0)
      [] category = "airdrop" -> Flow("airdrop", Abs(token_change), 0)
      [] category = "staking" ->
            IF token_change > 0 THEN Flow("staking_reward", token_change, 0)
            ELSE Flow("stake", Abs(token_change), 0)
      [] category = "liquidity" ->
            IF token_change > 0
            THEN Flow("liquidity_remove", token_change,
                      IF sol_change < 0 THEN Abs(sol_change) ELSE 0)
            ELSE Flow("liquidity_add", Abs(token_change),
                      IF sol_change > 0 THEN sol_change ELSE 0)
      [] category = "burn" -> Flow("burn", Abs(token_change), 0)
      [] OTHER ->
            IF token_change > 0 THEN Flow("other_in", token_change, 0)
            ELSE Flow("other_out", Abs(token_change), 0)

\* source.lower() if source else "unknown", then the first DEX program found
\* in str(accountData).
DexName(source, account_data) ==
    LET hits == {i \in 1..Len(DEX_PROGRAMS) : DEX_PROGRAMS[i][1] \in account_data}
    IN  IF hits # {}
        THEN DEX_PROGRAMS[CHOOSE i \in hits : \A j \in hits : i <= j][2]
        ELSE IF source.k = "str" /\ source.s # "" THEN Lower(source.s)
        ELSE "unknown"

\* source.lower() raises on a number.
DexNameRaises(source) == source.k = "num" /\ source.n # 0

\* datetime.fromtimestamp(timestamp) if timestamp else None
BlockTime(timestamp) ==
    CASE timestamp.k = "num" -> Ok(timestamp.n)
      [] timestamp.k = "str" /\ timestamp.s # "" -> Raised
      [] OTHER -> Ok(0)

NoActivity ==
    [signature |-> None, wallet_address |-> "", token_mint |-> "", tx_type |-> "",
     category |-> "", amount_token |-> 0, amount_sol |-> 0,
     price_per_token |-> [num |-> 0, den |-> 1], dex_name |-> "",
     transfer_destination |-> NoAddr, block_time |-> 0, helius_type |-> None,
     other_token_mint |-> NoAddr, other_token_amount |-> 0]

Returned(activity) == [status |-> "activity", activity |-> activity]
ReturnedNone == [status |-> "none", activity |-> NoActivity]
BodyRaised == [status |-> "raise", activity |-> NoActivity]

\* The part of the body after the category is known.
ParseRelevant(t, wallet_address, signature, tx_type, source, category) ==
    LET net == NetChanges(DictGet(t.tokenTransfers, List(<<>>)),
                          DictGet(t.nativeTransfers, List(<<>>)),
                          wallet_address, category)
    IN  IF net.raised THEN BodyRaised
        ELSE IF net.token_changes = <<>> THEN ReturnedNone
        ELSE LET traded == TradedToken(net.token_changes)
                 other == OtherToken(net.token_changes, traded.mint)
                 flow == Subtype(category, traded.change, net.sol_change,
                                 DictGet(t.nativeTransfers, List(<<>>)).items,
                                 wallet_address)
                 block_time == BlockTime(DictGet(t.timestamp, None))
             IN  IF Abs(traded.change) < TokenChangeMin THEN ReturnedNone
                 ELSE IF DexNameRaises(source) \/ block_time.raised THEN BodyRaised
                 ELSE Returned(
                    [signature |-> signature,
                     wallet_address |-> wallet_address,
                     token_mint |-> traded.mint,
                     tx_type |-> flow.swap_type,
                     category |-> category,
                     amount_token |-> flow.amount_token,
                     amount_sol |-> flow.amount_sol,
                     price_per_token |->
                        IF flow.amount_token > 0
                        THEN Frac(flow.amount_sol, flow.amount_token)
                        ELSE Frac(0, 1),
                     dex_name |-> DexName(source, t.accountData),
                     transfer_destination |-> net.transfer_destination,
                     block_time |-> block_time.v,
                     helius_type |-> tx_type,
                     other_token_mint |-> other.other_token_mint,
                     other_token_amount |-> other.other_token_amount])

\* The body of the try block.
ParseBody(t, wallet_address) ==
    LET signature == DictGet(t.signature, None)
        tx_type == DictGet(t.type, Str(""))
        source == DictGet(t.source, Str("unknown"))
        token_transfers == DictGet(t.tokenTransfers, List(<<>>))
        native_transfers == DictGet(t.nativeTransfers, List(<<>>))
        marker == SwapMarker(tx_type, source)
        pattern == PatternSwap(marker.v, token_transfers, native_transfers,
                               signature, wallet_address)
        swap == TokenToTokenSwap(pattern.v, token_transfers, native_transfers,
                                 signature, wallet_address)
        category == Category(swap.v, tx_type)
    IN  IF marker.raised THEN BodyRaised
        ELSE IF pattern.raised THEN BodyRaised
        ELSE IF swap.raised THEN BodyRaised
        ELSE IF category = "irrelevant" THEN ReturnedNone
        ELSE ParseRelevant(t, wallet_address, signature, tx_type, source, category)

\* The except clause: it logs tx.get('signature', 'unknown')[:8] and returns
\* None; the slice raises again when the signature is there and is no string.
ExceptClause(t) ==
    IF Sliceable(DictGet(t.signature, Str("unknown")))
    THEN ReturnedNone
    ELSE [status |-> "raise", activity |-> NoActivity]

parse_transaction(t, wallet_address) ==
    LET body == ParseBody(t, wallet_address)
    IN  IF body.status = "raise" THEN ExceptClause(t) ELSE body

-----------------------------------------------------------------------------
(* The transaction records given to parse_transaction.                     *)

MaxTokenTransfers == 2         \* entries of tokenTransfers
MaxNativeTransfers == 1        \* entries of nativeTransfers

Wallet == "wallet"

SeqsUpTo(S, n) == UNION { [1..k -> S] : k \in 0..n }

\* Entries of tokenTransfers.  10000000 units are 500 tokens, 6000000 are 300,
\* 40000 are 2 (wrapped) SOL, 1 is 0.00005 token.
TokenEntries ==
    { Transfer("tokA", "pool", Wallet, Num(10000000)),
      Transfer("tokA", Wallet, "pool", Num(10000000)),
      Transfer("tokB", "pool", Wallet, Num(6000000)),
      Transfer(WSOL_MINT, "pool", Wallet, Num(40000)),
      Transfer(WSOL_MINT, Wallet, "pool", Num(40000)),
      Transfer("tokA", "pool", Wallet, Num(1)),
      Transfer("tokA", "pool", "friend", Num(10000000)) }

\* Entries of nativeTransfers.  40000 units are 2 SOL, 100 are 0.005 SOL (a
\* fee or a refund), 1 is 0.00005 SOL.
NativeEntries ==
    { Transfer("", Wallet, "pool", Num(40000)),
      Transfer("", "pool", Wallet, Num(40000)),
      Transfer("", Wallet, "pool", Num(100)),
      Transfer("", "pool", Wallet, Num(100)),
      Transfer("", Wallet, "pool", Num(1)) }

TypeNames ==
    {"SWAP", "swap", "TRANSFER", "TOKEN_MINT", "CLAIM_REWARDS", "ADD_LIQUIDITY",
     "BURN", "UNKNOWN"}

\* Type, source and accountData of the well-formed records.
Hints ==
    [type : {Missing} \cup {Str(n) : n \in TypeNames}, source : {Missing},
     accountData : {{}}]
    \cup [type : {Str("UNKNOWN"), Str("TRANSFER")},
          source : {Str("Jupiter"), Str("SYSTEM_PROGRAM")}, accountData : {{}}]
    \cup [type : {Str("SWAP")}, source : {Str("SYSTEM_PROGRAM")},
          accountData : {{"JUP6LkbZbjS1jKKwapdHNy74zcZ3tLUZoi5QNyVTaV4"}}]

RawTx(signature, timestamp, hint, token_transfers, native_transfers) ==
    [signature |-> signature, timestamp |-> timestamp, type |-> hint.type,
     source |-> hint.source, accountData |-> hint.accountData,
     tokenTransfers |-> token_transfers, nativeTransfers |-> native_transfers]

\* Records with a signature and a timestamp, any hint and any transfer lists.
WellFormedTxs ==
    { RawTx(Str("5Kq3sig"), Num(1700000000), h, List(tt), List(nt)) :
        h \in Hints,
        tt \in SeqsUpTo(TokenEntries, MaxTokenTransfers),
        nt \in SeqsUpTo(NativeEntries, MaxNativeTransfers) }

\* Records with missing, null or wrongly typed fields.
MalformedTxs ==
    { RawTx(sig, ts, [type |-> ty, source |-> src, accountData |-> {}], tt, nt) :
        sig \in {Missing, None, Num(7), Str("5Kq3sig")},
        ts \in {Missing, None, Num(0), Str("n/a")},
        ty \in {None, Num(7), Str("UNKNOWN"), Str("SWAP")},
        src \in {Missing, None, Num(7)},
        tt \in {NoList, NullList, NumList,
                List(<<Transfer("tokA", "pool", Wallet, Num(10000000))>>),
                List(<<Transfer("tokA", "pool", Wallet, Num(10000000)), NonDict>>),
                List(<<Transfer("tokA", "pool", Wallet, Str("n/a"))>>)},
        nt \in {NoList, NullList,
                List(<<Transfer("", Wallet, "pool", Num(40000))>>),
                List(<<NonDict>>)} }

RawTxs == WellFormedTxs \cup MalformedTxs

NoRaw == RawTx(Missing, Missing, [type |-> Missing, source |-> Missing,
                                  accountData |-> {}], NoList, NoList)
NotParsed == [status |-> "", activity |-> NoActivity]

-----------------------------------------------------------------------------
(* PnLCalculator.calculate_realized_pnl                                    *)

\* FifoStep with the split lot kept at its whole amount.
FifoStep_SplitKeepsAmount(st, lot) ==
    IF st.remaining_to_sell <= 0
    THEN [st EXCEPT !.remaining_lots = Append(@, lot)]
    ELSE IF lot.amount <= st.remaining_to_sell
    THEN [st EXCEPT !.total_cost_sol = @ + lot.amount * lot.price_sol,
                    !.remaining_to_sell = @ - lot.amount]
    ELSE [st EXCEPT !.total_cost_sol = @ + st.remaining_to_sell * lot.price_sol,
                    !.remaining_lots = Append(@, lot),
                    !.remaining_to_sell = 0]

\* FifoStep with the part of a split lot costed as the whole lot.
FifoStep_WholeLotCost(st, lot) ==
    IF st.remaining_to_sell <= 0
    THEN [st EXCEPT !.remaining_lots = Append(@, lot)]
    ELSE IF lot.amount <= st.remaining_to_sell
    THEN [st EXCEPT !.total_cost_sol = @ + lot.amount * lot.price_sol,
                    !.remaining_to_sell = @ - lot.amount]
    ELSE [st EXCEPT !.total_cost_sol = @ + lot.amount * lot.price_sol,
                    !.remaining_lots =
                        Append(@, CostBasisLot(lot.amount - st.remaining_to_sell,
                                               lot.price_sol, lot.price_usd,
                                               lot.timestamp)),
                    !.remaining_to_sell = 0]

\* One iteration of `for lot in cost_basis_lots`, on the loop's locals.
FifoStep(st, lot) ==
    IF st.remaining_to_sell <= 0
    THEN [st EXCEPT !.remaining_lots = Append(@, lot)]
    ELSE IF lot.amount <= st.remaining_to_sell
    THEN [st EXCEPT !.total_cost_sol = @ + lot.amount * lot.price_sol,
                    !.remaining_to_sell = @ - lot.amount]
    ELSE [st EXCEPT !.total_cost_sol = @ + st.remaining_to_sell * lot.price_sol,
                    !.remaining_lots =
                        Append(@, CostBasisLot(lot.amount - st.remaining_to_sell,
                                               lot.price_sol, lot.price_usd,
                                               lot.timestamp)),
                    !.remaining_to_sell = 0]

RECURSIVE FifoLoop(_, _)
FifoLoop(st, lots) ==
    IF lots = <<>> THEN st ELSE FifoLoop(FifoStep(st, Head(lots)), Tail(lots))

calculate_realized_pnl(sell_amount, sell_price_sol, cost_basis_lots, sol_price_usd) ==
    LET st == FifoLoop([remaining_to_sell |-> sell_amount, total_cost_sol |-> 0,
                        remaining_lots |-> <<>>], cost_basis_lots)
        sell_value_sol == sell_amount * sell_price_sol
        realized_pnl_sol == sell_value_sol - st.total_cost_sol
        realized_pnl_usd == realized_pnl_sol * sol_price_usd
    IN  [realized_pnl_sol |-> realized_pnl_sol,
         realized_pnl_usd |-> realized_pnl_usd,
         remaining_lots |-> st.remaining_lots]

-----------------------------------------------------------------------------
(* PnLCalculator.process_transactions                                      *)

NewHolding(block_time) ==
    [current_balance |-> 0, total_cost_sol |-> 0, total_bought |-> 0,
     total_sold |-> 0, total_buy_sol |-> 0, total_sell_sol |-> 0,
     realized_pnl_sol |-> 0, realized_pnl_usd |-> 0,
     first_trade |-> block_time, last_trade |-> block_time, trade_count |-> 0]

\* The holding at the top of the loop body, with last_trade and trade_count set.
TouchHolding(holdings, t) ==
    LET h == Get(holdings, t.token_mint, NewHolding(t.block_time))
    IN  [h EXCEPT !.last_trade = t.block_time, !.trade_count = @ + 1]

\* The tx_type == "buy" branch.
ApplyBuy(lots, h, t, sol_price_usd) ==
    [lots |-> Append(lots, CostBasisLot(t.amount_token, t.price_per_token,
                                        t.price_per_token * sol_price_usd,
                                        t.block_time)),
     holding |-> [h EXCEPT
        !.current_balance = @ + t.amount_token,
        !.total_cost_sol = @ + t.amount_token * t.price_per_token,
        !.total_bought = @ + t.amount_token,
        !.total_buy_sol = @ + t.amount_token * t.price_per_token]]

\* ApplySell with the balance kept from going below zero.
ApplySell_ClampBalance(lots, h, t, sol_price_usd) ==
    LET r == calculate_realized_pnl(t.amount_token, t.price_per_token, lots,
                                    sol_price_usd)
    IN  [lots |-> r.remaining_lots,
         holding |-> [h EXCEPT
            !.current_balance = IF @ >= t.amount_token THEN @ - t.amount_token ELSE 0,
            !.realized_pnl_sol = @ + r.realized_pnl_sol,
            !.realized_pnl_usd = @ + r.realized_pnl_usd,
            !.total_sold = @ + t.amount_token,
            !.total_sell_sol = @ + t.amount_token * t.price_per_token,
            !.total_cost_sol = SumCost(r.remaining_lots)]]

\* ApplySell without the recalculation of total_cost_sol.
ApplySell_KeepCost(lots, h, t, sol_price_usd) ==
    LET r == calculate_realized_pnl(t.amount_token, t.price_per_token, lots,
                                    sol_price_usd)
    IN  [lots |-> r.remaining_lots,
         holding |-> [h EXCEPT
            !.current_balance = @ - t.amount_token,
            !.realized_pnl_sol = @ + r.realized_pnl_sol,
            !.realized_pnl_usd = @ + r.realized_pnl_usd,
            !.total_sold = @ + t.amount_token,
            !.total_sell_sol = @ + t.amount_token * t.price_per_token]]

\* The tx_type == "sell" branch.
ApplySell(lots, h, t, sol_price_usd) ==
    LET r == calculate_realized_pnl(t.amount_token, t.price_per_token, lots,
                                    sol_price_usd)
    IN  [lots |-> r.remaining_lots,
         holding |-> [h EXCEPT
            !.current_balance = @ - t.amount_token,
            !.realized_pnl_sol = @ + r.realized_pnl_sol,
            !.realized_pnl_usd = @ + r.realized_pnl_usd,
            !.total_sold = @ + t.amount_token,
            !.total_sell_sol = @ + t.amount_token * t.price_per_token,
            !.total_cost_sol = SumCost(r.remaining_lots)]]

\* LoopBody with a transfer_in handled as a buy at the price it carries.
LoopBody_TransferInAsBuy(lots_by_mint, holdings, t, prices) ==
    LET sol_price_usd == Get(prices, t.signature, DefaultSolPrice)
        lots == Get(lots_by_mint, t.token_mint, <<>>)
        h == TouchHolding(holdings, t)
        r == IF t.tx_type \in {"buy", "transfer_in"}
             THEN ApplyBuy(lots, h, t, sol_price_usd)
             ELSE IF t.tx_type = "sell" THEN ApplySell(lots, h, t, sol_price_usd)
             ELSE [lots |-> lots, holding |-> h]
    IN  [token_lots |-> Put(lots_by_mint, t.token_mint, r.lots),
         token_holdings |-> Put(holdings, t.token_mint, r.holding)]

\* One iteration with a single lot queue shared by all the mints.
LoopBody_SharedQueue(lots_by_mint, holdings, t, prices) ==
    LET sol_price_usd == Get(prices, t.signature, DefaultSolPrice)
        lots == Get(lots_by_mint, t.token_mint, <<>>)
        h == TouchHolding(holdings, t)
        r == IF t.tx_type = "buy" THEN ApplyBuy(lots, h, t, sol_price_usd)
             ELSE IF t.tx_type = "sell" THEN ApplySell(lots, h, t, sol_price_usd)
             ELSE [lots |-> lots, holding |-> h]
    IN  [token_lots |-> [k \in DOMAIN lots_by_mint \cup {t.token_mint} |-> r.lots],
         token_holdings |-> Put(holdings, t.token_mint, r.holding)]

\* One iteration of `for tx in sorted(transactions, ...)`.
LoopBody(lots_by_mint, holdings, t, prices) ==
    LET sol_price_usd == Get(prices, t.signature, DefaultSolPrice)
        lots == Get(lots_by_mint, t.token_mint, <<>>)
        h == TouchHolding(holdings, t)
        r == IF t.tx_type = "buy" THEN ApplyBuy(lots, h, t, sol_price_usd)
             ELSE IF t.tx_type = "sell" THEN ApplySell(lots, h, t, sol_price_usd)
             ELSE [lots |-> lots, holding |-> h]
    IN  [token_lots |-> Put(lots_by_mint, t.token_mint, r.lots),
         token_holdings |-> Put(holdings, t.token_mint, r.holding)]

\* The average buy price of one holding, set after the loop.
AvgBuyPrice(h, lots) ==
    IF h.current_balance > 0 /\ lots # <<>>
    THEN Frac(SumCost(lots), h.current_balance)
    ELSE Frac(0, 1)

WithAvg(h, lots) ==
    [k \in DOMAIN h \cup {"avg_buy_price_sol"} |->
        IF k = "avg_buy_price_sol" THEN AvgBuyPrice(h, lots) ELSE h[k]]

-----------------------------------------------------------------------------
(* process_transactions as a function of the whole list.                   *)

\* sorted(transactions, key=block_time or datetime.min): a stable sort.
RECURSIVE InsertByTime(_, _)
InsertByTime(sorted, t) ==
    IF sorted = <<>> THEN <<t>>
    ELSE IF Head(sorted).block_time <= t.block_time
    THEN <<Head(sorted)>> \o InsertByTime(Tail(sorted), t)
    ELSE <<t>> \o sorted

RECURSIVE SortedByTime(_)
SortedByTime(transactions) ==
    IF transactions = <<>> THEN <<>>
    ELSE InsertByTime(SortedByTime(SubSeq(transactions, 1, Len(transactions) - 1)),
                      transactions[Len(transactions)])

RECURSIVE FoldTxs(_, _, _)
FoldTxs(st, txs, prices) ==
    IF txs = <<>> THEN st
    ELSE FoldTxs(LoopBody(st.token_lots, st.token_holdings, Head(txs), prices),
                 Tail(txs), prices)

process_transactions(transactions, prices) ==
    LET st == FoldTxs([token_lots |-> [m \in {} |-> <<>>],
                       token_holdings |-> [m \in {} |-> NewHolding(NoTime)]],
                      SortedByTime(transactions), prices)
    IN  [m \in DOMAIN st.token_holdings |->
            WithAvg(st.token_holdings[m], st.token_lots[m])]

-----------------------------------------------------------------------------
(* sync_wallet_transactions: the WalletTokenHolding row stored for a token. *)

StoredHolding(data, token_address) ==
    [token_address |-> token_address,
     current_balance |-> data.current_balance,
     total_cost_sol |-> data.total_cost_sol,
     avg_buy_price |-> data.avg_buy_price_sol,
     total_bought |-> data.total_bought,
     total_sold |-> data.total_sold,
     total_buy_sol |-> data.total_buy_sol,
     total_sell_sol |-> data.total_sell_sol,
     realized_pnl_sol |-> data.realized_pnl_sol,
     realized_pnl_usd |-> data.realized_pnl_usd,
     first_buy_at |-> data.first_trade,
     last_trade_at |-> data.last_trade]

-----------------------------------------------------------------------------
(* PnLCalculator.get_portfolio_pnl                                         *)

\* Optional[float]
Nothing == [some |-> FALSE, v |-> Frac(0, 1)]
Some(f) == [some |-> TRUE, v |-> f]

\* current_prices.get(token.address): None when absent
PriceOf(current_prices, address) == Get(current_prices, address, Nothing)

\* The balance of the stored row, whatever on-chain balance is supplied.
BalanceOf_LedgerOnly(holding, actual_balances) == holding.current_balance

\* The balance a position is valued at.
BalanceOf(holding, actual_balances) ==
    IF actual_balances.given /\ holding.token_address \in DOMAIN actual_balances.of
    THEN actual_balances.of[holding.token_address]
    ELSE holding.current_balance

\* TokenPnL with the percentage computed without the test of the cost basis.
TokenPnL_NoCostGuard(holding, current_prices, sol_price_usd, actual_balances) ==
    LET current_price == PriceOf(current_prices, holding.token_address)
        current_balance == BalanceOf(holding, actual_balances)
        valued == current_price.some /\ current_price.v.num # 0 /\ current_balance > 0
        price == current_price.v.num
        current_value == current_balance * price
        cost_basis_usd == holding.total_cost_sol * sol_price_usd
        unrealized_pnl_usd == current_value - cost_basis_usd
        current_price_sol == IF sol_price_usd > 0 THEN Frac(price, sol_price_usd)
                             ELSE Frac(0, 1)
    IN  [token_address |-> holding.token_address,
         current_balance |-> current_balance,
         avg_buy_price_sol |-> holding.avg_buy_price,
         total_cost_sol |-> holding.total_cost_sol,
         current_price_usd |-> current_price,
         current_value_usd |-> IF valued THEN Some(Frac(current_value, 1)) ELSE Nothing,
         unrealized_pnl_sol |->
            IF valued
            THEN Frac(current_balance * current_price_sol.num
                        - holding.total_cost_sol * current_price_sol.den,
                      current_price_sol.den)
            ELSE Frac(0, 1),
         unrealized_pnl_usd |->
            IF valued THEN Some(Frac(unrealized_pnl_usd, 1)) ELSE Nothing,
         unrealized_pnl_percent |->
            IF valued
            THEN Some(Frac(unrealized_pnl_usd * 100, cost_basis_usd))
            ELSE Nothing,
         realized_pnl_sol |-> holding.realized_pnl_sol,
         realized_pnl_usd |-> holding.realized_pnl_usd,
         total_bought |-> holding.total_bought,
         total_sold |-> holding.total_sold,
         total_buy_sol |-> holding.total_buy_sol,
         total_sell_sol |-> holding.total_sell_sol,
         trade_count |-> 0,
         first_trade |-> holding.first_buy_at,
         last_trade |-> holding.last_trade_at]

\* One iteration of `for holding in holdings`: the TokenPnL of the position.
\* A quotient n / d is kept as Frac(n, d), also when d is 0.
TokenPnL(holding, current_prices, sol_price_usd, actual_balances) ==
    LET current_price == PriceOf(current_prices, holding.token_address)
        current_balance == BalanceOf(holding, actual_balances)
        valued == current_price.some /\ current_price.v.num # 0 /\ current_balance > 0
        price == current_price.v.num
        current_value == current_balance * price
        cost_basis_usd == holding.total_cost_sol * sol_price_usd
        unrealized_pnl_usd == current_value - cost_basis_usd
        \* current_price / sol_price_usd if sol_price_usd > 0 else 0
        current_price_sol == IF sol_price_usd > 0 THEN Frac(price, sol_price_usd)
                             ELSE Frac(0, 1)
    IN  [token_address |-> holding.token_address,
         current_balance |-> current_balance,
         avg_buy_price_sol |-> holding.avg_buy_price,
         total_cost_sol |-> holding.total_cost_sol,
         current_price_usd |-> current_price,
         current_value_usd |-> IF valued THEN Some(Frac(current_value, 1)) ELSE Nothing,
         unrealized_pnl_sol |->
            IF valued
            THEN Frac(current_balance * current_price_sol.num
                        - holding.total_cost_sol * current_price_sol.den,
                      current_price_sol.den)
            ELSE Frac(0, 1),
         unrealized_pnl_usd |->
            IF valued THEN Some(Frac(unrealized_pnl_usd, 1)) ELSE Nothing,
         unrealized_pnl_percent |->
            IF valued /\ cost_basis_usd > 0
            THEN Some(Frac(unrealized_pnl_usd * 100, cost_basis_usd))
            ELSE Nothing,
         realized_pnl_sol |-> holding.realized_pnl_sol,
         realized_pnl_usd |-> holding.realized_pnl_usd,
         total_bought |-> holding.total_bought,
         total_sold |-> holding.total_sold,
         total_buy_sol |-> holding.total_buy_sol,
         total_sell_sol |-> holding.total_sell_sol,
         trade_count |-> 0,
         first_trade |-> holding.first_buy_at,
         last_trade |-> holding.last_trade_at]

\* The sort key (current_value_usd or 0, realized_pnl_usd), compared as tuples.
KeyGreater(a, b) ==
    LET va == IF a.current_value_usd.some THEN a.current_value_usd.v.num ELSE 0
        vb == IF b.current_value_usd.some THEN b.current_value_usd.v.num ELSE 0
    IN  va > vb \/ (va = vb /\ a.realized_pnl_usd > b.realized_pnl_usd)

\* token_pnls.sort(key=..., reverse=True): stable, largest key first.
RECURSIVE InsertByKey(_, _)
InsertByKey(sorted, t) ==
    IF sorted = <<>> THEN <<t>>
    ELSE IF KeyGreater(t, Head(sorted)) THEN <<t>> \o sorted
    ELSE <<Head(sorted)>> \o InsertByKey(Tail(sorted), t)

RECURSIVE SortedByKey(_)
SortedByKey(token_pnls) ==
    IF token_pnls = <<>> THEN <<>>
    ELSE InsertByKey(SortedByKey(SubSeq(token_pnls, 1, Len(token_pnls) - 1)),
                     token_pnls[Len(token_pnls)])

\* The positions of the holdings whose Token row exists, in query order.
RECURSIVE TokenPnLs(_, _, _, _)
TokenPnLs(holdings, current_prices, sol_price_usd, actual_balances) ==
    IF holdings = <<>> THEN <<>>
    ELSE LET rest == TokenPnLs(Tail(holdings), current_prices, sol_price_usd,
                               actual_balances)
         IN  IF Head(holdings).token_address = NoAddr THEN rest
             ELSE <<TokenPnL(Head(holdings), current_prices, sol_price_usd,
                             actual_balances)>> \o rest

get_portfolio_pnl(holdings, current_prices, sol_price_usd, actual_balances) ==
    LET token_pnls == TokenPnLs(holdings, current_prices, sol_price_usd,
                                actual_balances)
        Value(t) == IF t.current_value_usd.some THEN t.current_value_usd.v.num ELSE 0
        Unrealized(t) == IF t.unrealized_pnl_usd.some THEN t.unrealized_pnl_usd.v.num
                         ELSE 0
        Cost(t) == t.total_cost_sol
        RealizedSol(t) == t.realized_pnl_sol
        RealizedUsd(t) == t.realized_pnl_usd
        SumOver(seq, f(_)) == SumSeq([i \in 1..Len(seq) |-> f(seq[i])])
        Counted(t) == IF t.current_balance > 0 \/ t.realized_pnl_sol # 0 THEN 1 ELSE 0
    IN  [total_value_usd |-> SumOver(token_pnls, Value),
         total_cost_sol |-> SumOver(token_pnls, Cost),
         total_unrealized_pnl_usd |-> SumOver(token_pnls, Unrealized),
         total_realized_pnl_sol |-> SumOver(token_pnls, RealizedSol),
         total_realized_pnl_usd |-> SumOver(token_pnls, RealizedUsd),
         token_count |-> SumOver(token_pnls, Counted),
         tokens |-> SortedByKey(token_pnls)]

-----------------------------------------------------------------------------
(* The portfolios projected: holdings stored by a sync, and the quotes.    *)

MaxPositions == 1              \* WalletTokenHolding rows of the wallet

Feed(tx_type, amount_token, price_per_token) ==
    [tx_type |-> tx_type, amount_token |-> amount_token,
     price_per_token |-> price_per_token]

\* The activity lists whose fold is stored: a position held at cost, one partly
\* sold, one oversold, one sold without a buy, one only received.
FeedLists ==
    { <<Feed("buy", 5, 1)>>,
      <<Feed("buy", 5, 1), Feed("buy", 2, 3)>>,
      <<Feed("buy", 5, 1), Feed("sell", 2, 2)>>,
      <<Feed("buy", 5, 1), Feed("sell", 7, 5)>>,
      <<Feed("sell", 2, 2)>>,
      <<Feed("transfer_in", 5, 0)>> }

FeedTxs(ins) ==
    [i \in 1..Len(ins) |->
        [signature |-> i, token_mint |-> "mintA", tx_type |-> ins[i].tx_type,
         amount_token |-> ins[i].amount_token,
         price_per_token |-> ins[i].price_per_token, block_time |-> i]]

\* The rows a sync can have stored; NoAddr: the Token row is gone.
HoldingRows ==
    { StoredHolding(process_transactions(FeedTxs(ins), [s \in {} |-> 0])["mintA"], a) :
        ins \in FeedLists, a \in Mints \cup {NoAddr} }

PriceMaps ==
    { [m \in {} |-> Nothing],
      [m \in Mints |-> Nothing],
      [m \in Mints |-> Some(Frac(0, 1))],
      [m \in Mints |-> Some(Frac(3, 1))] }

ActualBalances ==
    { [given |-> FALSE, of |-> [m \in {} |-> 0]],
      [given |-> TRUE, of |-> [m \in {} |-> 0]],
      [given |-> TRUE, of |-> [m \in {"mintA"} |-> 4]] }

Requests ==
    [holdings : SeqsUpTo(HoldingRows, MaxPositions),
     current_prices : PriceMaps,
     sol_price_usd : {0, 150},
     actual_balances : ActualBalances]

NoRequest ==
    [holdings |-> <<>>, current_prices |-> [m \in {} |-> Nothing],
     sol_price_usd |-> 0, actual_balances |-> [given |-> FALSE, of |-> [m \in {} |-> 0]]]

NoPortfolio ==
    [total_value_usd |-> 0, total_cost_sol |-> 0, total_unrealized_pnl_usd |-> 0,
     total_realized_pnl_sol |-> 0, total_realized_pnl_usd |-> 0, token_count |-> 0,
     tokens |-> <<>>]

-----------------------------------------------------------------------------
(* The fold as a state machine: the activities arrive in the order of the  *)
(* sorted list, one loop iteration per step.                               *)

SolPriceMaps == { [s \in {} |-> 0], [s \in {1} |-> QuotedSolPrice] }

InitLedger ==
    /\ pc = "loop"
    /\ tx = NoTx
    /\ sol_prices \in SolPriceMaps
    /\ token_lots = [m \in {} |-> <<>>]
    /\ token_holdings = [m \in {} |-> NewHolding(NoTime)]
    /\ swaps = <<>>
    /\ raw = NoRaw
    /\ parsed = NotParsed
    /\ request = NoRequest
    /\ portfolio = NoPortfolio

\* The next element of the sorted list: block_time never decreases.
ProcessTx ==
    /\ pc = "loop"
    /\ tx.signature < MaxTxs
    /\ \E in \in Inputs, m \in Mints :
         LET t == [signature |-> tx.signature + 1, token_mint |-> m,
                   tx_type |-> in.tx_type, amount_token |-> in.amount_token,
                   price_per_token |-> in.price_per_token,
                   block_time |-> tx.block_time + 1]
             r == LoopBody(token_lots, token_holdings, t, sol_prices)
         IN  /\ tx' = t
             /\ token_lots' = r.token_lots
             /\ token_holdings' = r.token_holdings
    /\ UNCHANGED <<pc, sol_prices, swaps, classifierVars, projectorVars>>

\* Lines after the loop: the average buy price of every holding; return.
Finish ==
    /\ pc = "loop"
    /\ pc' = "done"
    /\ token_holdings' =
         [m \in DOMAIN token_holdings |-> WithAvg(token_holdings[m], token_lots[m])]
    /\ UNCHANGED <<tx, sol_prices, token_lots, swaps, classifierVars, projectorVars>>

NextLedger == ProcessTx \/ Finish

Spec == InitLedger /\ [][NextLedger]_vars

-----------------------------------------------------------------------------
(* process_transactions as a whole call: the wallet's activities are given *)
(* as one list, in the order the caller happened to collect them, and the  *)
(* same activities may be given again in another order at the next sync.   *)

MaxBatch == 2                  \* length of the list given to one call

BatchTimes == {1, 2}           \* block_time values: equal ones are ties

BatchInputs ==
    { [tx_type |-> "buy", amount_token |-> 5, price_per_token |-> 1],
      [tx_type |-> "sell", amount_token |-> 5, price_per_token |-> 2],
      [tx_type |-> "sell", amount_token |-> 2, price_per_token |-> 2],
      [tx_type |-> "transfer_in", amount_token |-> 5, price_per_token |-> 0] }

\* The lists a call can be given: the signature of an activity is its place
\* in the list as first collected.
Batches ==
    UNION { { [i \in 1..n |->
                 [signature |-> i, token_mint |-> m[i],
                  tx_type |-> in[i].tx_type, amount_token |-> in[i].amount_token,
                  price_per_token |-> in[i].price_per_token,
                  block_time |-> bt[i]]] :
              in \in [1..n -> BatchInputs], m \in [1..n -> Mints],
              bt \in [1..n -> BatchTimes] } : n \in 0..MaxBatch }

\* The lists a fetch can deliver: overlapping pages bring an activity twice.
FetchedLists ==
    Batches \cup { Append(b, b[i]) : b \in {c \in Batches : Len(c) \in 1..(MaxBatch - 1)},
                                     i \in 1..(MaxBatch - 1) }

\* The same activities in every order.
Reorderings(txs) ==
    LET n == Len(txs)
        perms == {p \in [1..n -> 1..n] : \A i, j \in 1..n : p[i] = p[j] => i = j}
    IN  { [i \in 1..n |-> txs[p[i]]] : p \in perms }

InitBatch ==
    /\ pc = "batch"
    /\ swaps \in FetchedLists
    /\ sol_prices \in SolPriceMaps
    /\ tx = NoTx
    /\ token_lots = [m \in {} |-> <<>>]
    /\ token_holdings = [m \in {} |-> NewHolding(NoTime)]
    /\ raw = NoRaw
    /\ parsed = NotParsed
    /\ request = NoRequest
    /\ portfolio = NoPortfolio

\* One call of process_transactions on the list as collected.
ProcessBatch ==
    /\ pc = "batch"
    /\ token_holdings' = process_transactions(swaps, sol_prices)
    /\ pc' = "processed"
    /\ UNCHANGED <<tx, sol_prices, token_lots, swaps, classifierVars, projectorVars>>

\* The next sync: the same activities, collected in another order.
Reprocess ==
    /\ pc = "processed"
    /\ \E again \in Reorderings(swaps) :
         /\ swaps' = again
         /\ token_holdings' = process_transactions(again, sol_prices)
    /\ UNCHANGED <<pc, tx, sol_prices, token_lots, classifierVars, projectorVars>>

NextBatch == ProcessBatch \/ Reprocess

SpecBatch == InitBatch /\ [][NextBatch]_vars

-----------------------------------------------------------------------------
(* parse_transaction as a state machine: one call on one record.           *)

InitClassifier ==
    /\ pc = "parse"
    /\ raw \in RawTxs
    /\ parsed = NotParsed
    /\ tx = NoTx
    /\ sol_prices = [s \in {} |-> 0]
    /\ token_lots = [m \in {} |-> <<>>]
    /\ token_holdings = [m \in {} |-> NewHolding(NoTime)]
    /\ swaps = <<>>
    /\ request = NoRequest
    /\ portfolio = NoPortfolio

ParseTransaction ==
    /\ pc = "parse"
    /\ parsed' = parse_transaction(raw, Wallet)
    /\ pc' = "parsed"
    /\ UNCHANGED <<raw, ledgerVars, projectorVars>>

SpecClassifier == InitClassifier /\ [][ParseTransaction]_vars

-----------------------------------------------------------------------------
(* get_portfolio_pnl as a state machine: one call on one wallet.           *)

InitProjector ==
    /\ pc = "project"
    /\ request \in Requests
    /\ portfolio = NoPortfolio
    /\ raw = NoRaw
    /\ parsed = NotParsed
    /\ tx = NoTx
    /\ sol_prices = [s \in {} |-> 0]
    /\ token_lots = [m \in {} |-> <<>>]
    /\ token_holdings = [m \in {} |-> NewHolding(NoTime)]
    /\ swaps = <<>>

GetPortfolioPnl ==
    /\ pc = "project"
    /\ portfolio' = get_portfolio_pnl(request.holdings, request.current_prices,
                                      request.sol_price_usd, request.actual_balances)
    /\ pc' = "projected"
    /\ UNCHANGED <<request, ledgerVars, classifierVars>>

SpecProjector == InitProjector /\ [][GetPortfolioPnl]_vars

-----------------------------------------------------------------------------
(* Properties of the ledger.                                               *)

\* An iteration of the loop of process_transactions has just run.
LoopStep == pc = "loop" /\ pc' = "loop" /\ tx' # tx

LotsOf(lots_by_mint, m) == Get(lots_by_mint, m, <<>>)

\* A lot queue as the list of the unit prices of its tokens, oldest first.
RECURSIVE Expand(_)
Expand(lots) ==
    IF lots = <<>> THEN <<>>
    ELSE [i \in 1..Head(lots).amount |-> Head(lots).price_sol] \o Expand(Tail(lots))

\* A lot queue as the list of its <<amount, unit price>> pairs.
LotView(lots) == [i \in 1..Len(lots) |-> <<lots[i].amount, lots[i].price_sol>>]

\* C1: after every activity applied by process_transactions the holding's
\* current_balance equals the sum of the amounts of the lots left in the
\* token's queue, also after a sell larger than the tracked balance.
C1_BalanceEqualsLots ==
    \A m \in DOMAIN token_holdings :
        token_holdings[m].current_balance = SumAmount(token_lots[m])

\* C2: a sell of amount a at unit price p against a queue holding at least a
\* tokens raises realized P&L by a*p minus the cost of the a oldest tokens, and
\* leaves the tokens after them.  Scenario A (amount unit 20 tokens, price unit
\* 0.01): lots [5 @ 1], sell 2 @ 2 realizes 2 and leaves [3 @ 1].  Scenario B
\* (amount unit 10 tokens, price unit 0.01): lots [5 @ 1, 5 @ 3], sell 7 @ 5
\* realizes 24 and leaves [3 @ 3].
C2_SellRealizesFifoCost ==
    [][ LET m == tx'.token_mint
            a == tx'.amount_token
            p == tx'.price_per_token
            before == LotsOf(token_lots, m)
            units == Expand(before)
            gain == token_holdings'[m].realized_pnl_sol
                      - Get(token_holdings, m, NewHolding(NoTime)).realized_pnl_sol
        IN  (LoopStep /\ tx'.tx_type = "sell" /\ SumAmount(before) >= a) =>
              /\ gain = a * p - SumSeq(SubSeq(units, 1, a))
              /\ Expand(token_lots'[m]) = SubSeq(units, a + 1, Len(units))
              /\ (LotView(before) = << <<5, 1>> >> /\ a = 2 /\ p = 2) =>
                    (gain = 2 /\ LotView(token_lots'[m]) = << <<3, 1>> >>)
              /\ (LotView(before) = << <<5, 1>>, <<5, 3>> >> /\ a = 7 /\ p = 5) =>
                    (gain = 24 /\ LotView(token_lots'[m]) = << <<3, 3>> >>)
      ]_vars

\* Scenario B has been folded: two buys and the sell of 7 @ 5.
C2_Witness ==
    \E m \in DOMAIN token_holdings :
        /\ tx.token_mint = m /\ tx.tx_type = "sell"
        /\ tx.amount_token = 7 /\ tx.price_per_token = 5
        /\ token_holdings[m].trade_count = 3
        /\ token_holdings[m].total_bought = 10
        /\ token_holdings[m].realized_pnl_sol = 24
        /\ LotView(token_lots[m]) = << <<3, 3>> >>

\* C3: tokens received by transfer_in cost nothing: when the first activity of
\* a token is a transfer_in of N tokens, at whatever price, and the next one a
\* sell of N tokens at unit price p, realized P&L is N*p.
C3_TransferInZeroCost ==
    [][ LET m == tx'.token_mint
        IN  ( /\ LoopStep
              /\ tx.tx_type = "transfer_in" /\ tx.token_mint = m
              /\ m \in DOMAIN token_holdings
              /\ token_holdings[m].trade_count = 1
              /\ tx'.tx_type = "sell" /\ tx'.amount_token = tx.amount_token ) =>
            token_holdings'[m].realized_pnl_sol
                = tx'.amount_token * tx'.price_per_token
      ]_vars

\* Scenario C has been folded (amount unit 200 tokens, price unit 0.0005): two
\* activities of a token that was never bought, the second a sell of 5 @ 2
\* realizing 10.
C3_Witness ==
    \E m \in DOMAIN token_holdings :
        /\ tx.token_mint = m /\ tx.tx_type = "sell"
        /\ tx.amount_token = 5 /\ tx.price_per_token = 2
        /\ token_holdings[m].trade_count = 2
        /\ token_holdings[m].total_bought = 0
        /\ token_holdings[m].total_sold = 5
        /\ token_holdings[m].realized_pnl_sol = 10

\* C5: an acquisition or disposal whose amount_token is 0 leaves the position
\* unchanged: lot queue, balance, totals, realized P&L, timestamps, counters.
C5_ZeroAmountIsNoOp ==
    [][ LET m == tx'.token_mint
        IN  ( /\ LoopStep
              /\ tx'.tx_type \in {"buy", "sell"} /\ tx'.amount_token = 0
              /\ m \in DOMAIN token_holdings ) =>
            /\ token_lots'[m] = token_lots[m]
            /\ token_holdings'[m] = token_holdings[m]
      ]_vars

\* C6: disposing exactly current_balance, when the balance equals the sum of
\* the lots, leaves an empty queue, balance 0, cost basis 0 and average cost 0.
C6_FullDrainEmptiesQueue ==
    [][ LET m == tx'.token_mint
        IN  ( /\ LoopStep
              /\ m \in DOMAIN token_holdings
              /\ token_holdings[m].current_balance = SumAmount(token_lots[m])
              /\ tx'.tx_type = "sell"
              /\ tx'.amount_token = token_holdings[m].current_balance ) =>
            /\ token_lots'[m] = <<>>
            /\ token_holdings'[m].current_balance = 0
            /\ token_holdings'[m].total_cost_sol = 0
            /\ AvgBuyPrice(token_holdings'[m], token_lots'[m]).num = 0
      ]_vars

\* A sell of more tokens than the lots of the queue hold.
Oversell ==
    /\ LoopStep
    /\ tx'.tx_type = "sell"
    /\ tx'.amount_token > SumAmount(LotsOf(token_lots, tx'.token_mint))

\* What an oversell does to the position: every lot is consumed, the excess
\* costs nothing, balance and realized P&L are updated.
OversellEffect ==
    LET m == tx'.token_mint
        before == LotsOf(token_lots, m)
        old == Get(token_holdings, m, NewHolding(NoTime))
        new == token_holdings'[m]
    IN  /\ token_lots'[m] = <<>>
        /\ new.realized_pnl_sol - old.realized_pnl_sol
              = tx'.amount_token * tx'.price_per_token - SumCost(before)
        /\ new.current_balance = old.current_balance - tx'.amount_token
        /\ new.total_cost_sol = 0

HoldingKeys ==
    {"current_balance", "total_cost_sol", "total_bought", "total_sold",
     "total_buy_sol", "total_sell_sol", "realized_pnl_sol", "realized_pnl_usd",
     "first_trade", "last_trade", "trade_count"}

-----------------------------------------------------------------------------
(* Properties of the classifier.                                           *)

\* C7: parse_transaction never raises, whatever record it is given: it
\* returns an activity or None.
C7_NeverRaises == pc = "parsed" => parsed.status # "raise"

\* Neither the type nor the source of the record is a swap marker.
NoSwapHint(t) ==
    /\ t.type.k \in {"missing", "str"}
    /\ t.type.s \notin SwapTypes /\ ~ContainsSWAP(Upper(t.type.s))
    /\ t.source.k \in {"missing", "str"}
    /\ Upper(t.source.s) \notin SwapSources

\* The record has a signature and a timestamp, its only token transfer brings
\* the wallet an amount (at least 0.0001) of a token other than wrapped SOL,
\* and its only native transfer is sent by the wallet.
TokenForNative(t) ==
    /\ t.signature.k = "str" /\ t.timestamp.k = "num"
    /\ t.tokenTransfers.k = "list" /\ Len(t.tokenTransfers.items) = 1
    /\ t.nativeTransfers.k = "list" /\ Len(t.nativeTransfers.items) = 1
    /\ LET tt == t.tokenTransfers.items[1]
           nt == t.nativeTransfers.items[1]
       IN  /\ tt.dict /\ tt.mint # WSOL_MINT
           /\ tt.toUserAccount = Wallet /\ tt.fromUserAccount # Wallet
           /\ tt.amount.k = "num" /\ tt.amount.n >= TokenChangeMin
           /\ nt.dict /\ nt.fromUserAccount = Wallet /\ nt.toUserAccount # Wallet
           /\ nt.amount.k = "num" /\ nt.amount.n >= 0

\* C8: a transaction without swap hint in which the wallet receives a token
\* amount T and sends a native amount S is a swap, subtype buy, with
\* amount_token T, amount_native S and unit price S / T; 500 tokens for 2 SOL
\* give the unit price 0.004 = 4 / 1000.
C8_TokenForNativeIsBuy ==
    (pc = "parsed" /\ NoSwapHint(raw) /\ TokenForNative(raw)) =>
        LET T == raw.tokenTransfers.items[1].amount.n
            S == raw.nativeTransfers.items[1].amount.n
            a == parsed.activity
        IN  /\ parsed.status = "activity"
            /\ a.category = "swap" /\ a.tx_type = "buy"
            /\ a.token_mint = raw.tokenTransfers.items[1].mint
            /\ a.amount_token = T /\ a.amount_sol = S
            /\ a.price_per_token = Frac(S, T)
            /\ (T = 10000000 /\ S = 40000) =>
                   a.price_per_token.num * 1000 = 4 * a.price_per_token.den

\* Scenario D has been parsed: 500 tokens in, 2 SOL out, no hint at all.
C8_Witness ==
    /\ pc = "parsed"
    /\ raw.type = Missing /\ raw.source = Missing /\ TokenForNative(raw)
    /\ raw.tokenTransfers.items[1].amount.n = 10000000
    /\ raw.nativeTransfers.items[1].amount.n = 40000
    /\ parsed.status = "activity"
    /\ parsed.activity.tx_type = "buy"
    /\ parsed.activity.amount_sol = 40000

-----------------------------------------------------------------------------
(* Properties of the projection.                                           *)

\* No quotient of a position was taken with a divisor of 0.
NoZeroDivisor(t) ==
    /\ t.unrealized_pnl_sol.den # 0
    /\ t.unrealized_pnl_percent.v.den # 0
    /\ t.avg_buy_price_sol.den # 0

\* unrealized P&L / cost basis * 100 of a position, both in USD.
PercentOf(t, sol_price_usd) ==
    Frac((t.current_balance * t.current_price_usd.v.num
            - t.total_cost_sol * sol_price_usd) * 100,
         t.total_cost_sol * sol_price_usd)

\* C10 as stated: unrealized_pnl_percent is unrealized P&L / cost basis * 100
\* exactly when the cost basis of the position is greater than 0, undefined
\* otherwise, and nothing divides by zero.
C10_PercentIffCostBasis ==
    pc = "projected" =>
        \A i \in 1..Len(portfolio.tokens) :
            LET t == portfolio.tokens[i]
            IN  /\ t.unrealized_pnl_percent.some <=> t.total_cost_sol > 0
                /\ t.unrealized_pnl_percent.some =>
                       t.unrealized_pnl_percent.v = PercentOf(t, request.sol_price_usd)
                /\ NoZeroDivisor(t)

\* C10, amended: unrealized_pnl_percent is unrealized P&L / cost basis * 100
\* (both in USD) exactly when the token has a current price other than 0, the
\* balance valued is greater than 0 and the cost basis in USD, total_cost_sol
\* times the SOL price, is greater than 0; it is undefined otherwise, and
\* nothing divides by zero.
C10_PercentIffValuedAndCost ==
    pc = "projected" =>
        \A i \in 1..Len(portfolio.tokens) :
            LET t == portfolio.tokens[i]
                valued == /\ t.current_price_usd.some
                          /\ t.current_price_usd.v.num # 0
                          /\ t.current_balance > 0
            IN  /\ t.unrealized_pnl_percent.some <=>
                       (valued /\ t.total_cost_sol * request.sol_price_usd > 0)
                /\ t.unrealized_pnl_percent.some =>
                       t.unrealized_pnl_percent.v = PercentOf(t, request.sol_price_usd)
                /\ NoZeroDivisor(t)

\* A position bought 5 @ 1 and priced at 3 USD with SOL at 150 USD has been
\* projected: (15 - 750) * 100 / 750.
C10_Witness ==
    /\ pc = "projected"
    /\ \E i \in 1..Len(portfolio.tokens) :
          LET t == portfolio.tokens[i]
          IN  /\ t.total_cost_sol = 5 /\ t.current_balance = 5
              /\ request.sol_price_usd = 150
              /\ t.unrealized_pnl_percent = Some(Frac(-73500, 750))

-----------------------------------------------------------------------------
(* Further properties of the ledger.                                       *)

\* C11: calculate_realized_pnl consumes lots oldest-first: the lots it returns
\* are a suffix of the queue it was given, in the same order; the lots before
\* the suffix were consumed entirely (their amounts are part of the amount
\* sold); only the first returned lot may be reduced, by the part of the sale
\* the consumed lots did not cover; prices and timestamp of every returned lot
\* are those of the lot it was.
C11_LotsConsumedOldestFirst ==
    [][ (LoopStep /\ tx'.tx_type = "sell") =>
            LET m == tx'.token_mint
                before == LotsOf(token_lots, m)
                after == token_lots'[m]
                k == Len(before) - Len(after)
                consumed == SumAmount(SubSeq(before, 1, k))
            IN  /\ k >= 0
                /\ consumed <= tx'.amount_token
                /\ \A i \in 2..Len(after) : after[i] = before[k + i]
                /\ after # <<>> =>
                      /\ after[1].price_sol = before[k + 1].price_sol
                      /\ after[1].price_usd = before[k + 1].price_usd
                      /\ after[1].timestamp = before[k + 1].timestamp
                      /\ after[1].amount
                            = before[k + 1].amount - (tx'.amount_token - consumed)
      ]_vars

\* Lots 5 @ 1 and 5 @ 3, then a sell of 2: the first lot is reduced to 3, the
\* second is returned as it was.
C11_Witness ==
    \E m \in DOMAIN token_holdings :
        /\ tx.token_mint = m /\ tx.tx_type = "sell" /\ tx.amount_token = 2
        /\ token_holdings[m].trade_count = 3
        /\ LotView(token_lots[m]) = << <<3, 1>>, <<5, 3>> >>

\* C12: every activity whose subtype is an acquisition (buy, transfer_in,
\* airdrop, staking_reward, liquidity_remove) appends exactly one lot of
\* amount_token to the back of the token's queue and increases
\* current_balance and total_bought by amount_token.
C12_AcquisitionAppendsLot ==
    [][ ( /\ LoopStep
          /\ tx'.tx_type \in {"buy", "transfer_in", "airdrop", "staking_reward",
                              "liquidity_remove"} ) =>
            LET m == tx'.token_mint
                before == LotsOf(token_lots, m)
                after == token_lots'[m]
                old == Get(token_holdings, m, NewHolding(NoTime))
                new == token_holdings'[m]
            IN  /\ Len(after) = Len(before) + 1
                /\ SubSeq(after, 1, Len(before)) = before
                /\ after[Len(after)].amount = tx'.amount_token
                /\ new.current_balance = old.current_balance + tx'.amount_token
                /\ new.total_bought = old.total_bought + tx'.amount_token
      ]_vars

\* C13: every activity whose subtype is a non-sale disposal (transfer_out,
\* stake, liquidity_add, burn, other_out) consumes lots oldest-first,
\* decreases current_balance and increases total_sold by amount_token, and
\* realizes no proceeds: realized P&L changes by minus the cost of the lots
\* consumed.
C13_NonSaleDisposalConsumesLots ==
    [][ ( /\ LoopStep
          /\ tx'.tx_type \in {"transfer_out", "stake", "liquidity_add", "burn",
                              "other_out"} ) =>
            LET m == tx'.token_mint
                before == Expand(LotsOf(token_lots, m))
                after == Expand(token_lots'[m])
                a == tx'.amount_token
                old == Get(token_holdings, m, NewHolding(NoTime))
                new == token_holdings'[m]
            IN  /\ after = SubSeq(before, a + 1, Len(before))
                /\ new.current_balance = old.current_balance - a
                /\ new.total_sold = old.total_sold + a
                /\ new.realized_pnl_sol
                      = old.realized_pnl_sol - (SumSeq(before) - SumSeq(after))
      ]_vars

-----------------------------------------------------------------------------
(* Further properties of the classifier.  The owner's movements are read   *)
(* off the record itself, transfer by transfer.                            *)

\* The entries of a transfer list of the record.
TransfersOf(lv) == IF lv.k = "list" THEN lv.items ELSE <<>>

\* The amount a transfer moves: amounts that are no positive number move nothing.
Moved(transfer) ==
    IF transfer.dict /\ transfer.amount.k = "num" /\ transfer.amount.n > 0
    THEN transfer.amount.n ELSE 0

\* What a transfer brings the owner (received: positive, sent: negative).
OwnerSigned(transfer) ==
    IF ~transfer.dict THEN 0
    ELSE IF transfer.toUserAccount = Wallet THEN Moved(transfer)
    ELSE IF transfer.fromUserAccount = Wallet THEN -Moved(transfer)
    ELSE 0

\* The owner's net change in a mint over the token transfers of the record.
OwnerNet(t, mint) ==
    LET items == TransfersOf(t.tokenTransfers)
    IN  SumSeq([i \in 1..Len(items) |->
                   IF items[i].dict /\ items[i].mint = mint
                   THEN OwnerSigned(items[i]) ELSE 0])

\* The mints of the token transfers of the record, wrapped SOL aside.
TokenMintsOf(t) ==
    LET items == TransfersOf(t.tokenTransfers)
    IN  {items[i].mint : i \in {j \in 1..Len(items) : items[j].dict}} \ {WSOL_MINT}

\* The category an explicit type marker stands for.
MarkerCategory(name) ==
    CASE name \in TransferTypes -> "transfer"
      [] name \in AirdropTypes -> "airdrop"
      [] name \in StakingTypes -> "staking"
      [] name \in LiquidityTypes -> "liquidity"
      [] name \in BurnTypes -> "burn"
      [] OTHER -> "none"

\* C14: explicit markers come before structure: an activity returned for a
\* record whose type is an explicit transfer, airdrop, staking, liquidity or
\* burn marker and that carries no swap marker has that marker's category,
\* also when the owner has token and native transfers in it.
C14_ExplicitMarkerBeforeStructure ==
    ( /\ pc = "parsed" /\ parsed.status = "activity"
      /\ NoSwapHint(raw)
      /\ raw.type.k = "str" /\ MarkerCategory(raw.type.s) # "none" ) =>
        parsed.activity.category = MarkerCategory(raw.type.s)

\* C15: the subtype of a returned activity is what the table gives for its
\* category and the sign of the primary token's net change; airdrop is given
\* only to a positive net change and burn only to a negative one.
C15_SubtypeByCategoryAndSign ==
    (pc = "parsed" /\ parsed.status = "activity") =>
        LET a == parsed.activity
            up == OwnerNet(raw, a.token_mint) > 0
        IN  CASE a.category = "swap" -> a.tx_type = IF up THEN "buy" ELSE "sell"
              [] a.category = "transfer" ->
                    a.tx_type = IF up THEN "transfer_in" ELSE "transfer_out"
              [] a.category = "airdrop" -> a.tx_type = "airdrop" /\ up
              [] a.category = "staking" ->
                    a.tx_type = IF up THEN "staking_reward" ELSE "stake"
              [] a.category = "liquidity" ->
                    a.tx_type = IF up THEN "liquidity_remove" ELSE "liquidity_add"
              [] a.category = "burn" -> a.tx_type = "burn" /\ ~up
              [] a.category = "other" ->
                    a.tx_type = IF up THEN "other_in" ELSE "other_out"
              [] OTHER -> FALSE

\* C17: when the owner has no net change in any token other than wrapped SOL
\* no activity is returned (the call gives None wherever its except clause
\* can); an activity returned names a mint of the record whose absolute net
\* change for the owner is the largest of all, and amount_token is that
\* absolute net change.
C17_PrimaryTokenIsLargestNetChange ==
    pc = "parsed" =>
        /\ (\A m \in TokenMintsOf(raw) : OwnerNet(raw, m) = 0) =>
              /\ parsed.status # "activity"
              /\ raw.signature.k \in {"str", "missing"} => parsed.status = "none"
        /\ parsed.status = "activity" =>
              LET a == parsed.activity
              IN  /\ a.token_mint \in TokenMintsOf(raw)
                  /\ \A m \in TokenMintsOf(raw) :
                         Abs(OwnerNet(raw, m)) <= Abs(OwnerNet(raw, a.token_mint))
                  /\ a.amount_token = Abs(OwnerNet(raw, a.token_mint))

\* An activity was returned for a record whose second token transfer is the
\* larger one: 300 of tokB, then 500 of tokA.
C17_Witness ==
    /\ pc = "parsed" /\ parsed.status = "activity"
    /\ OwnerNet(raw, "tokB") = 6000000 /\ OwnerNet(raw, "tokA") = 10000000
    /\ raw.tokenTransfers.items[1].mint = "tokB"
    /\ parsed.activity.token_mint = "tokA"
    /\ parsed.activity.amount_token = 10000000

\* C18: other_token_mint of a returned activity is set only to a mint other
\* than the primary token whose net change for the owner is not zero and has
\* the sign opposite to the primary's, with other_token_amount its magnitude;
\* when the record has no such mint it is left unset.
C18_CounterTokenIsOppositeSigned ==
    (pc = "parsed" /\ parsed.status = "activity") =>
        LET a == parsed.activity
            primary == OwnerNet(raw, a.token_mint)
            Opposite(m) ==
                /\ m # a.token_mint
                /\ OwnerNet(raw, m) # 0
                /\ (OwnerNet(raw, m) > 0) # (primary > 0)
        IN  /\ a.other_token_mint # NoAddr =>
                  /\ Opposite(a.other_token_mint)
                  /\ a.other_token_amount = Abs(OwnerNet(raw, a.other_token_mint))
            /\ (\A m \in TokenMintsOf(raw) : ~Opposite(m)) =>
                  a.other_token_mint = NoAddr

\* What the owner's native movements are made of: the wrapped-SOL token
\* transfers and the native transfers of at least 0.0001, signed for the owner.
NativeMoves(t) ==
    LET tokens == TransfersOf(t.tokenTransfers)
        natives == TransfersOf(t.nativeTransfers)
    IN  [i \in 1..Len(tokens) |->
            IF tokens[i].dict /\ tokens[i].mint = WSOL_MINT
            THEN OwnerSigned(tokens[i]) ELSE 0]
        \o [i \in 1..Len(natives) |->
            IF Moved(natives[i]) >= NativeDust THEN OwnerSigned(natives[i]) ELSE 0]

\* The native amount the owner sent out, and the one the owner received.
NativeSent(t) ==
    LET moves == NativeMoves(t)
    IN  SumSeq([i \in 1..Len(moves) |-> IF moves[i] < 0 THEN -moves[i] ELSE 0])

NativeReceived(t) ==
    LET moves == NativeMoves(t)
    IN  SumSeq([i \in 1..Len(moves) |-> IF moves[i] > 0 THEN moves[i] ELSE 0])

\* The owner's net native change: received minus sent.
NativeNet(t) == SumSeq(NativeMoves(t))

\* The largest single native transfer with the owner on the given side
\* ("from": sent, "to": received); 0 when there is none.
LargestNative(t, side) ==
    LET natives == TransfersOf(t.nativeTransfers)
        mine == {i \in 1..Len(natives) :
                    /\ natives[i].dict
                    /\ IF side = "from" THEN natives[i].fromUserAccount = Wallet
                       ELSE natives[i].toUserAccount = Wallet}
        sizes == {Moved(natives[i]) : i \in mine} \cup {0}
    IN  CHOOSE x \in sizes : \A y \in sizes : y <= x

\* C19 as stated: amount_sol is the native amount the owner sent out for buy
\* and liquidity_remove, the native amount the owner received for sell and
\* liquidity_add (0 when there is no movement in that direction), and 0 for
\* every other subtype.
C19_NativeBySubtypeDirection ==
    (pc = "parsed" /\ parsed.status = "activity") =>
        LET a == parsed.activity
        IN  a.amount_sol =
                CASE a.tx_type \in {"buy", "liquidity_remove"} -> NativeSent(raw)
                  [] a.tx_type \in {"sell", "liquidity_add"} -> NativeReceived(raw)
                  [] OTHER -> 0

\* C19 as the code has it: for buy amount_sol is the owner's net native
\* outflow (sent minus received, wrapped SOL included) and, when there is no
\* net outflow, the largest single native transfer the owner sent; for sell
\* it is the net inflow and, when there is none, the largest single native
\* transfer the owner received; for liquidity_remove it is the net outflow
\* and for liquidity_add the net inflow; it is 0 when there is neither, and
\* 0 for every other subtype.
C19_NativeNetThenLargest ==
    (pc = "parsed" /\ parsed.status = "activity") =>
        LET a == parsed.activity
            net == NativeNet(raw)
            outflow == IF net < 0 THEN -net ELSE 0
            inflow == IF net > 0 THEN net ELSE 0
        IN  a.amount_sol =
                CASE a.tx_type = "buy" ->
                        IF outflow # 0 THEN outflow ELSE LargestNative(raw, "from")
                  [] a.tx_type = "sell" ->
                        IF inflow # 0 THEN inflow ELSE LargestNative(raw, "to")
                  [] a.tx_type = "liquidity_remove" -> outflow
                  [] a.tx_type = "liquidity_add" -> inflow
                  [] OTHER -> 0

\* A buy paid with 2 wrapped SOL in which the wallet also receives 0.005 SOL:
\* the amount is the net 1.995.
C19_Witness ==
    /\ pc = "parsed" /\ parsed.status = "activity"
    /\ parsed.activity.tx_type = "buy"
    /\ NativeSent(raw) = 40000 /\ NativeReceived(raw) = 100
    /\ parsed.activity.amount_sol = 39900

\* C20: every activity returned has amount_token > 0, amount_sol >= 0 and the
\* unit price amount_sol / amount_token, computed without dividing by zero.
C20_AmountsAndUnitPrice ==
    (pc = "parsed" /\ parsed.status = "activity") =>
        LET a == parsed.activity
        IN  /\ a.amount_token > 0
            /\ a.amount_sol >= 0
            /\ a.price_per_token.den # 0
            /\ a.price_per_token = Frac(a.amount_sol, a.amount_token)

\* A sell of 500 tokens in which the wallet also pays 2 SOL: the owner's net
\* native change is negative and the amount reported is 0.
C20_Witness ==
    /\ pc = "parsed" /\ parsed.status = "activity"
    /\ parsed.activity.tx_type = "sell"
    /\ parsed.activity.amount_token = 10000000
    /\ NativeNet(raw) = -40000
    /\ parsed.activity.amount_sol = 0
    /\ parsed.activity.price_per_token.num = 0

\* C21: wrapped-SOL transfers move the owner's native amount only: no
\* activity returned has the wrapped-SOL mint as its token_mint or as its
\* other_token_mint.
C21_WrappedSolIsNeverAToken ==
    (pc = "parsed" /\ parsed.status = "activity") =>
        /\ parsed.activity.token_mint # WSOL_MINT
        /\ parsed.activity.other_token_mint # WSOL_MINT

\* An activity returned for a record in which the wallet pays 2 wrapped SOL
\* for a token: the 2 are in amount_sol.
C21_Witness ==
    /\ pc = "parsed" /\ parsed.status = "activity"
    /\ \E i \in 1..Len(TransfersOf(raw.tokenTransfers)) :
          LET t == raw.tokenTransfers.items[i]
          IN  t.dict /\ t.mint = WSOL_MINT /\ t.fromUserAccount = Wallet
    /\ NativeNet(raw) = -40000
    /\ parsed.activity.token_mint = "tokA"
    /\ parsed.activity.other_token_mint = NoAddr
    /\ parsed.activity.amount_sol = 40000

\* Neither the type nor the source of the record is a marker of any category.
NoExplicitMarker(t) ==
    /\ NoSwapHint(t)
    /\ t.type.k = "str" => MarkerCategory(t.type.s) = "none"

\* The transfer is a well-formed one with the owner as sender or receiver.
OwnerParty(transfer) ==
    /\ transfer.dict /\ transfer.amount.k = "num"
    /\ (transfer.toUserAccount = Wallet) # (transfer.fromUserAccount = Wallet)

\* A well-formed record in which the owner moves one token other than wrapped
\* SOL, in one direction, by at least 0.0001, and is party to no native and
\* no wrapped-SOL transfer.
SingleTokenMovement(t) ==
    LET tokens == TransfersOf(t.tokenTransfers)
        natives == TransfersOf(t.nativeTransfers)
        mine == {i \in 1..Len(tokens) : OwnerParty(tokens[i])}
    IN  /\ t.signature.k = "str" /\ t.timestamp.k = "num"
        /\ t.tokenTransfers.k = "list" /\ t.nativeTransfers.k \in {"list", "missing"}
        /\ \A i \in 1..Len(tokens) : tokens[i].dict /\ tokens[i].amount.k = "num"
        /\ \A i \in 1..Len(natives) : natives[i].dict /\ ~OwnerParty(natives[i])
        /\ mine # {}
        /\ \A i, j \in mine :
              /\ tokens[i].mint = tokens[j].mint /\ tokens[i].mint # WSOL_MINT
              /\ tokens[i].toUserAccount = tokens[j].toUserAccount
        /\ \E i \in mine : Abs(OwnerNet(t, tokens[i].mint)) >= TokenChangeMin

\* C22: a record without explicit marker in which the owner has a single-mint,
\* single-direction token movement and no native component is not dropped:
\* it is returned with category transfer, subtype transfer_in when the owner
\* received and transfer_out when the owner sent.
C22_PlainMovementIsTransfer ==
    (pc = "parsed" /\ NoExplicitMarker(raw) /\ SingleTokenMovement(raw)) =>
        /\ parsed.status = "activity"
        /\ parsed.activity.category = "transfer"
        /\ parsed.activity.tx_type =
              IF OwnerNet(raw, parsed.activity.token_mint) > 0
              THEN "transfer_in" ELSE "transfer_out"

\* The mints of the token transfers the owner sends or receives.
OwnerMints(t) ==
    LET tokens == TransfersOf(t.tokenTransfers)
    IN  {tokens[i].mint : i \in {j \in 1..Len(tokens) :
            /\ tokens[j].dict
            /\ tokens[j].toUserAccount = Wallet \/ tokens[j].fromUserAccount = Wallet}}

\* The owner sends or receives one of the native transfers of the record.
OwnerInNative(t) ==
    LET natives == TransfersOf(t.nativeTransfers)
    IN  \E i \in 1..Len(natives) :
            /\ natives[i].dict
            /\ natives[i].toUserAccount = Wallet \/ natives[i].fromUserAccount = Wallet

\* C23: a record without explicit marker, in which the owner is party to no
\* native transfer, is returned as a swap (by the token-for-token rule) only
\* when the owner is party to transfers of at least two distinct mints and
\* the owner's net native movement is below 0.01; two transfers of one mint,
\* or transfers between others, do not make it a swap.
C23_TokenForTokenNeedsTwoMints ==
    ( /\ pc = "parsed" /\ parsed.status = "activity"
      /\ NoExplicitMarker(raw) /\ ~OwnerInNative(raw)
      /\ parsed.activity.category = "swap" ) =>
        /\ Cardinality(OwnerMints(raw)) >= 2
        /\ Abs(NativeNet(raw)) < NativeSwapLimit

\* Transfers below the dust thresholds: a token transfer below 0.0001 token
\* and a native transfer below 0.0001 SOL.
DustTokenEntries == {e \in TokenEntries : e.amount.n < TokenChangeMin}
DustNativeEntries == {e \in NativeEntries : e.amount.n < NativeDust}

\* The record with one more token transfer, and with one more native transfer.
WithTokenTransfer(t, e) ==
    [t EXCEPT !.tokenTransfers = List(Append(t.tokenTransfers.items, e))]
WithNativeTransfer(t, e) ==
    [t EXCEPT !.nativeTransfers = List(Append(t.nativeTransfers.items, e))]

\* Two results of parse_transaction agree: both return nothing, or both
\* return an activity with the same category, subtype, amounts and unit price.
SameOutcome(p, q) ==
    /\ (p.status = "activity") = (q.status = "activity")
    /\ p.status = "activity" =>
          /\ p.activity.category = q.activity.category
          /\ p.activity.tx_type = q.activity.tx_type
          /\ p.activity.token_mint = q.activity.token_mint
          /\ p.activity.amount_token = q.activity.amount_token
          /\ p.activity.amount_sol = q.activity.amount_sol
          /\ p.activity.price_per_token = q.activity.price_per_token

\* C24: transfers below the dust threshold are discarded before aggregation:
\* the record with one more token or native transfer below the threshold is
\* parsed to the same outcome as the record itself.
C24_DustChangesNothing ==
    pc = "parsed" =>
        /\ raw.tokenTransfers.k = "list" =>
              \A e \in DustTokenEntries :
                  SameOutcome(parsed, parse_transaction(WithTokenTransfer(raw, e), Wallet))
        /\ raw.nativeTransfers.k = "list" =>
              \A e \in DustNativeEntries :
                  SameOutcome(parsed, parse_transaction(WithNativeTransfer(raw, e), Wallet))

\* C25: an activity with subtype transfer_out carries as transfer_destination
\* the address that received the primary token from the owner: the
\* to-address of a transfer of token_mint that the owner sent.
C25_TransferOutNamesReceiver ==
    ( /\ pc = "parsed" /\ parsed.status = "activity"
      /\ parsed.activity.tx_type = "transfer_out" ) =>
        LET tokens == TransfersOf(raw.tokenTransfers)
        IN  \E i \in 1..Len(tokens) :
                /\ tokens[i].dict
                /\ tokens[i].mint = parsed.activity.token_mint
                /\ tokens[i].fromUserAccount = Wallet
                /\ Moved(tokens[i]) > 0
                /\ tokens[i].toUserAccount = parsed.activity.transfer_destination

\* A transfer of 500 tokA from the wallet to the pool address was returned as
\* transfer_out.
C25_Witness ==
    /\ pc = "parsed" /\ parsed.status = "activity"
    /\ parsed.activity.tx_type = "transfer_out"
    /\ parsed.activity.token_mint = "tokA"
    /\ parsed.activity.amount_token = 10000000
    /\ parsed.activity.transfer_destination = "pool"

\* A dict cut down to one key.
Only(d, key) == [k \in DOMAIN d \cap {key} |-> d[k]]

\* C26: positions of different mints are independent: an activity applied
\* for one mint leaves the lots and the holding of every other mint as they
\* were, and what it makes of its own mint's lots and holding is what it
\* would make of them with no other mint in the ledger; so a mint's holding
\* computed from a mixed list is the one computed from its activities alone.
C26_MintsAreIndependent ==
    [][ LoopStep =>
            LET m == tx'.token_mint
                alone == LoopBody(Only(token_lots, m), Only(token_holdings, m),
                                  tx', sol_prices)
            IN  /\ \A o \in Mints \ {m} :
                      /\ (o \in DOMAIN token_lots') = (o \in DOMAIN token_lots)
                      /\ (o \in DOMAIN token_holdings') = (o \in DOMAIN token_holdings)
                      /\ o \in DOMAIN token_lots => token_lots'[o] = token_lots[o]
                      /\ o \in DOMAIN token_holdings =>
                            token_holdings'[o] = token_holdings[o]
                /\ token_lots'[m] = alone.token_lots[m]
                /\ token_holdings'[m] = alone.token_holdings[m]
      ]_vars

\* A sell of mintB has been applied while mintA holds a lot of its own.
C26_Witness ==
    /\ pc = "loop" /\ tx.token_mint = "mintB" /\ tx.tx_type = "sell"
    /\ "mintA" \in DOMAIN token_lots /\ "mintB" \in DOMAIN token_lots
    /\ LotView(token_lots["mintA"]) = << <<5, 1>> >>
    /\ LotView(token_lots["mintB"]) = << <<3, 1>> >>
    /\ token_holdings["mintA"].trade_count = 1
    /\ token_holdings["mintB"].total_sold = 2

\* C27: in the result of process_transactions the total_cost_sol of every
\* holding is the sum of amount times unit price over its remaining lots, its
\* avg_buy_price_sol is that sum divided by current_balance when
\* current_balance > 0 and 0 otherwise, and so the cost basis equals the
\* average cost times the balance.
C27_CostBasisIsAverageTimesBalance ==
    pc = "done" =>
        \A m \in DOMAIN token_holdings :
            LET h == token_holdings[m]
                cost == SumCost(token_lots[m])
            IN  /\ h.total_cost_sol = cost
                /\ h.avg_buy_price_sol =
                      IF h.current_balance > 0 THEN Frac(cost, h.current_balance)
                      ELSE Frac(0, 1)
                /\ h.total_cost_sol * h.avg_buy_price_sol.den
                      = h.avg_buy_price_sol.num * h.current_balance

\* C30: value is conserved: after every activity applied, for every token,
\* realized_pnl_sol + total_buy_sol = total_sell_sol + total_cost_sol, also
\* after a sell larger than the tracked balance.
C30_ValueIsConserved ==
    \A m \in DOMAIN token_holdings :
        LET h == token_holdings[m]
        IN  h.realized_pnl_sol + h.total_buy_sol = h.total_sell_sol + h.total_cost_sol

\* 5 bought at 1, then 7 sold at 5: the queue is empty, 30 + 5 = 35 + 0.
C30_Witness ==
    /\ pc = "loop" /\ tx.tx_type = "sell" /\ tx.amount_token = 7
    /\ tx.token_mint \in DOMAIN token_holdings
    /\ LET h == token_holdings[tx.token_mint]
       IN  /\ h.total_bought = 5 /\ h.total_buy_sol = 5
           /\ h.total_sell_sol = 35 /\ h.realized_pnl_sol = 30
           /\ h.total_cost_sol = 0 /\ h.current_balance = -2
    /\ token_lots[tx.token_mint] = <<>>

-----------------------------------------------------------------------------
(* Properties of a whole call of process_transactions.                     *)

\* C16: the activities are applied in non-decreasing timestamp order with a
\* stable secondary key for equal timestamps, so giving the same activities
\* again in another order produces the same holdings.
C16_ReorderingKeepsHoldings ==
    [][ (pc = "processed" /\ pc' = "processed") =>
            token_holdings' = token_holdings ]_vars

\* The list without the later copies of an activity: activities are the same
\* when they have the same signature and mint (the wallet is one).
RECURSIVE Deduplicated(_)
Deduplicated(txs) ==
    IF txs = <<>> THEN <<>>
    ELSE LET front == Deduplicated(SubSeq(txs, 1, Len(txs) - 1))
             last == txs[Len(txs)]
         IN  IF \E i \in 1..Len(front) :
                    /\ front[i].signature = last.signature
                    /\ front[i].token_mint = last.token_mint
             THEN front ELSE Append(front, last)

\* C29: the activities are deduplicated by (signature, wallet, mint) before
\* they are fed to the fold: a fetched list that holds an activity twice
\* yields the holdings of the list with the duplicate removed.
C29_DuplicatesAreFoldedOnce ==
    pc = "processed" =>
        token_holdings = process_transactions(Deduplicated(swaps), sol_prices)

-----------------------------------------------------------------------------
(* Further properties of the projection.                                   *)

\* The stored rows behind a projected position.
RowsOf(t) ==
    {request.holdings[j] : j \in {k \in 1..Len(request.holdings) :
                                     request.holdings[k].token_address = t.token_address}}

\* C28 as stated: for every position with a price supplied, the current value
\* is the stored position's current_balance times the price and the
\* unrealized P&L is that value minus the cost basis, also when the price or
\* the balance is 0 (an undefined amount is read as 0).
C28_ValueIsBalanceTimesPrice ==
    pc = "projected" =>
        \A i \in 1..Len(portfolio.tokens) :
            LET t == portfolio.tokens[i]
                price == PriceOf(request.current_prices, t.token_address)
            IN  price.some =>
                  \E row \in RowsOf(t) :
                      LET value == row.current_balance * price.v.num
                      IN  /\ t.current_value_usd.v = Frac(value, 1)
                          /\ t.unrealized_pnl_usd.v =
                                Frac(value - row.total_cost_sol * request.sol_price_usd, 1)

\* C28, amended: the balance valued is the on-chain balance supplied for the
\* token, and the stored current_balance when none is supplied.  When the
\* price supplied is not 0 and the balance valued is greater than 0, the
\* current value is that balance times the price, the unrealized P&L in USD
\* is the value minus the cost basis (total_cost_sol times the SOL price) and
\* the unrealized P&L in SOL is the value over the SOL price (0 when the SOL
\* price is 0) minus total_cost_sol; otherwise the current value and the
\* unrealized P&L in USD are undefined and the unrealized P&L in SOL is 0.
C28_ValueOfValuedBalance ==
    pc = "projected" =>
        \A i \in 1..Len(portfolio.tokens) :
            LET t == portfolio.tokens[i]
                price == PriceOf(request.current_prices, t.token_address)
                supplied == /\ request.actual_balances.given
                            /\ t.token_address \in DOMAIN request.actual_balances.of
                valued == price.some /\ price.v.num # 0 /\ t.current_balance > 0
                value == t.current_balance * price.v.num
                sol == request.sol_price_usd
            IN  /\ \E row \in RowsOf(t) :
                      /\ t.total_cost_sol = row.total_cost_sol
                      /\ t.current_balance =
                            IF supplied THEN request.actual_balances.of[t.token_address]
                            ELSE row.current_balance
                /\ valued =>
                      /\ t.current_value_usd = Some(Frac(value, 1))
                      /\ t.unrealized_pnl_usd = Some(Frac(value - t.total_cost_sol * sol, 1))
                      /\ t.unrealized_pnl_sol =
                            IF sol > 0 THEN Frac(value - t.total_cost_sol * sol, sol)
                            ELSE Frac(0 - t.total_cost_sol, 1)
                /\ ~valued =>
                      /\ t.current_value_usd = Nothing
                      /\ t.unrealized_pnl_usd = Nothing
                      /\ t.unrealized_pnl_sol = Frac(0, 1)

\* A position stored with balance 5 and cost 5 has been projected with the
\* on-chain balance 4 at 3 USD, SOL at 150 USD: value 12, unrealized 12 - 750.
C28_Witness ==
    /\ pc = "projected" /\ Len(portfolio.tokens) = 1
    /\ request.sol_price_usd = 150
    /\ request.holdings[1].current_balance = 5
    /\ portfolio.tokens[1].total_cost_sol = 5
    /\ portfolio.tokens[1].current_balance = 4
    /\ portfolio.tokens[1].current_value_usd = Some(Frac(12, 1))
    /\ portfolio.tokens[1].unrealized_pnl_usd = Some(Frac(-738, 1))

====
